---- MODULE Spec2Model ----
(***************************************************************************)
(* matcho: structural pattern matching (matcho/pattern.py) and template    *)
(* reconstruction (matcho.py).  Data, patterns, templates and bindings are *)
(* tagged records; the compiled matchers and instantiators are closures    *)
(* over an immutable specification, so "build then call" is modelled by    *)
(* recursive operators that dispatch exactly as the builders do and run    *)
(* exactly as the built objects do.                                        *)
(***************************************************************************)
EXTENDS Integers, Sequences, FiniteSets, TLC

VARIABLES
    sliceHashable,  \* interpreter: are slice objects hashable (CPython >= 3.12)
    order,          \* iteration order of a set of names (hash order of this process)
    pat,            \* the pattern handed to build_matcher
    built,          \* outcome of build_matcher: "none", "ok" or "ValueError"
    mdata,          \* the datum of the last matcher call
    mres,           \* outcome of the last matcher call
    tmpl,           \* the spec handed to build_template
    tbuilt,         \* outcome of build_template: "none", "ok" or "ValueError"
    args,           \* the caller's bindings mapping, handed to the instantiator
    coord,          \* the nesting_level the caller hands to the instantiator
    tres,            \* outcome of the last instantiator call, on the current arguments
    first,          \* an earlier invocation the caller kept: its data and its outcome
    heap,           \* the objects invocations have created: dicts, lists and Repeatings
    procs           \* the invocations in progress: input, remaining steps, outcome

vars == <<sliceHashable, order, pat, built, mdata, mres, tmpl, tbuilt, args, coord, tres,
          first, heap, procs>>

(***************************************************************************)
(* Data values.  t is the Python type; v the payload.                      *)
(***************************************************************************)
PyInt(n)    == [t |-> "int", v |-> n]
PyStr(s)    == [t |-> "str", v |-> s]
PyList(xs)  == [t |-> "list", v |-> xs]
PyDict(f)   == [t |-> "dict", v |-> f]
Repeating(xs) == [t |-> "rep", v |-> xs]
EllipsisValue == [t |-> "ellipsis", v |-> 0]

(***************************************************************************)
(* Pattern model.                                                          *)
(***************************************************************************)
ELLIPSIS  == [k |-> "ellipsis"]
Lit(v)    == [k |-> "lit", v |-> v]
Bind(name, dtype) == [k |-> "bind", name |-> name, dtype |-> dtype]
bind(name) == Bind(name, "none")
BindAs(name, p, hasDefault, dflt) ==
    [k |-> "bind_as", name |-> name, p |-> p, hasDefault |-> hasDefault, dflt |-> dflt]
bind_as(name, p) == BindAs(name, p, FALSE, PyInt(0))
SkipOnMismatch(p) == [k |-> "skip_mismatch", p |-> p]
SkipMissingKeys(keys, p) == [k |-> "skip_missing_keys", keys |-> keys, p |-> p]
Default(key, value) == [key |-> key, isDefault |-> TRUE, default_value |-> value]
Key(key) == [key |-> key, isDefault |-> FALSE, default_value |-> PyInt(0)]
PList(items) == [k |-> "list", items |-> items]
PDict(keys, pats) == [k |-> "dict", keys |-> keys, pats |-> pats]
PType(ty) == [k |-> "type", ty |-> ty]

(***************************************************************************)
(* Outcomes of a call: bindings, or the exception that left the call.      *)
(***************************************************************************)
Ok(b) == [kind |-> "ok", b |-> b, key |-> ""]
Raise(kind) == [kind |-> kind, b |-> <<>>, key |-> ""]
KeyMismatch(key) == [kind |-> "KeyMismatch", b |-> <<>>, key |-> key]
NotCalled == Raise("none")

\* CastMismatch is declared with the other exceptions, as a Mismatch
CastMismatchKinds == {"CastMismatch"}
MismatchKinds ==
    {"KeyMismatch", "LiteralMismatch", "TypeMismatch", "LengthMismatch"} \cup CastMismatchKinds
IsMismatch(e) == e.kind \in MismatchKinds
HasKey(e) == e.kind = "KeyMismatch"

\* dict | dict: the right operand wins on a shared key
Merge(b1, b2) == b2 @@ b1

\* the arithmetic of a Python slice seq[lo:hi] on a list, 0-based, clipped
Slice(xs, lo, hi) ==
    LET h == IF hi > Len(xs) THEN Len(xs) ELSE hi
    IN  IF lo >= h THEN <<>> ELSE SubSeq(xs, lo + 1, h)

NumEllipsis(items) == Cardinality({i \in 1..Len(items) : items[i].k = "ellipsis"})

\* int(value) for the values of the model: the decimal strings that parse
Digits == [s \in {"42"} |-> 42]
CastOk(ty, d) ==
    /\ ty = "int"
    /\ \/ d.t = "int"
       \/ d.t = "str" /\ d.v \in DOMAIN Digits
Cast(ty, d) == IF d.t = "str" THEN PyInt(Digits[d.v]) ELSE d

(***************************************************************************)
(* find_bindings: the names a pattern binds, with the computed nesting     *)
(* level of each (matcho/pattern.py).                                      *)
(***************************************************************************)
RECURSIVE find_bindings(_, _)
RECURSIVE find_bindings_items(_, _, _)
find_bindings_items(items, i, level) ==
    IF i > Len(items) THEN <<>>
    ELSE Merge(find_bindings(items[i], level), find_bindings_items(items, i + 1, level))

\* find_bindings that does not look below a bind_as
find_bindings_shallow(p, nesting_level) ==
    CASE p.k = "bind" -> (p.name :> nesting_level)
      [] p.k = "bind_as" -> (p.name :> nesting_level)
      [] p.k \in {"skip_mismatch", "skip_missing_keys"} -> find_bindings(p.p, 0)
      [] p.k = "list" ->
            find_bindings_items(p.items, 1, nesting_level + NumEllipsis(p.items))
      [] p.k = "dict" -> find_bindings_items(p.pats, 1, nesting_level)
      [] OTHER -> <<>>

find_bindings(p, nesting_level) ==
    CASE p.k = "bind" -> (p.name :> nesting_level)
      [] p.k = "bind_as" -> Merge(find_bindings(p.p, 0), (p.name :> nesting_level))
      [] p.k \in {"skip_mismatch", "skip_missing_keys"} -> find_bindings(p.p, 0)
      [] p.k = "list" ->
            find_bindings_items(p.items, 1, nesting_level + NumEllipsis(p.items))
      [] p.k = "dict" -> find_bindings_items(p.pats, 1, nesting_level)
      [] OTHER -> <<>>

(***************************************************************************)
(* build_matcher: ValueError at build time, anywhere in the pattern.       *)
(***************************************************************************)
EllipsisNotLast(items) ==
    /\ Len(items) >= 1
    /\ items[Len(items)].k # "ellipsis"
    /\ \E i \in 1..(Len(items) - 1) : items[i].k = "ellipsis"

RECURSIVE BuildFails(_)
BuildFails(p) ==
    CASE p.k \in {"bind_as", "skip_mismatch", "skip_missing_keys"} -> BuildFails(p.p)
      [] p.k = "list" ->
            \/ EllipsisNotLast(p.items)
            \/ \E i \in 1..Len(p.items) : BuildFails(p.items[i])
      [] p.k = "dict" -> \E i \in 1..Len(p.pats) : BuildFails(p.pats[i])
      [] OTHER -> FALSE

(***************************************************************************)
(* The matchers.  Match(p, d) is build_matcher(p)(d).                      *)
(***************************************************************************)
\* data[:n] on a datum that is not a list
SliceNonList(d) ==
    CASE d.t = "str" -> Raise("TypeMismatch")   \* a str slice is a str: FixdListMatcher rejects it
      [] d.t = "dict" -> Raise(IF sliceHashable THEN "KeyError" ELSE "TypeError")
      [] OTHER -> Raise("TypeError")

LiteralMatcher(literal, data) ==
    IF data = literal THEN Ok(<<>>) ELSE Raise("LiteralMismatch")

\* the capture that checks the conversion and binds the datum as it came
BindMatcher_raw(p, value) ==
    IF p.dtype = "none" THEN Ok(p.name :> value)
    ELSE IF CastOk(p.dtype, value) THEN Ok(p.name :> value)
    ELSE Raise("CastMismatch")

BindMatcher(p, value) ==
    IF p.dtype = "none" THEN Ok(p.name :> value)
    ELSE IF CastOk(p.dtype, value) THEN Ok(p.name :> Cast(p.dtype, value))
    ELSE Raise("CastMismatch")

TypeMatcher(p, data) ==
    IF CastOk(p.ty, data) THEN Ok(<<>>) ELSE Raise("CastMismatch")

InstanceMatcher(data) ==
    IF data.t = "list" THEN Ok(<<>>) ELSE Raise("TypeMismatch")

\* the lookup that takes the default whenever the key declares one
lookup_default_first(mapping, key) ==
    IF key.isDefault THEN Ok("d" :> key.default_value)
    ELSE IF key.key \in DOMAIN mapping THEN Ok("d" :> mapping[key.key])
    ELSE KeyMismatch(key.key)

\* lookup(mapping, key): the datum to match, or KeyMismatch
lookup(mapping, key) ==
    IF key.key \in DOMAIN mapping THEN Ok("d" :> mapping[key.key])
    ELSE IF key.isDefault THEN Ok("d" :> key.default_value)
    ELSE KeyMismatch(key.key)

\* bindings[k] = v in place of bindings[k].values.append(v)
AppendAll_overwrite(bindings, bnd) ==
    IF \E n \in DOMAIN bnd : n \notin DOMAIN bindings THEN Raise("KeyError")
    ELSE Ok(Merge(bindings, bnd))

\* for k, v in bnd.items(): bindings[k].values.append(v)
AppendAll(bindings, bnd) ==
    IF \E n \in DOMAIN bnd : n \notin DOMAIN bindings THEN Raise("KeyError")
    ELSE IF \E n \in DOMAIN bnd : bindings[n].t # "rep" THEN Raise("AttributeError")
    ELSE Ok([n \in DOMAIN bindings |->
                IF n \in DOMAIN bnd THEN Repeating(Append(bindings[n].v, bnd[n]))
                ELSE bindings[n]])

\* the seeding with accumulators that the previous invocation has filled
PreSeed_kept(bindings, names) ==
    IF \E n \in names : n \in DOMAIN bindings THEN Raise("AssertionError")
    ELSE Ok([n \in DOMAIN bindings \cup names |->
                IF n \notin names THEN bindings[n]
                ELSE IF mres.kind = "ok" /\ n \in DOMAIN mres.b /\ mres.b[n].t = "rep"
                     THEN mres.b[n]
                     ELSE Repeating(<<>>)])

\* for name in bound_optional_names: assert name not in bindings; bindings[name] = Repeating([])
PreSeed(bindings, names) ==
    IF \E n \in names : n \in DOMAIN bindings THEN Raise("AssertionError")
    ELSE Ok([n \in DOMAIN bindings \cup names |->
                IF n \in names THEN Repeating(<<>>) ELSE bindings[n]])

\* the predicate without the test of the key
SkipPredicate_anykey(p, e) ==
    IF p.k = "skip_mismatch" THEN IsMismatch(e)
    ELSE HasKey(e)

\* the predicate of an ErrorHandlingMatcher, as build_matcher sets it
SkipPredicate(p, e) ==
    IF p.k = "skip_mismatch" THEN IsMismatch(e)
    ELSE HasKey(e) /\ e.key \in p.keys

RECURSIVE Match(_, _)
RECURSIVE FixdListMatcher(_, _)
RECURSIVE MatchElements(_, _, _, _)
RECURSIVE RepeatingListMatcher(_, _)
RECURSIVE RepeatLoop(_, _, _, _)
RECURSIVE DictMatcher(_, _)
RECURSIVE DictLoop(_, _, _, _)
RECURSIVE BindingMatcher(_, _)
RECURSIVE ErrorHandlingMatcher(_, _)

\* reduce(or_, map(apply_first, zip(matchers, data)), {})
MatchElements(ps, ds, i, bindings) ==
    IF i > Len(ps) \/ i > Len(ds) THEN Ok(bindings)
    ELSE LET r == Match(ps[i], ds[i])
         IN  IF r.kind # "ok" THEN r
             ELSE MatchElements(ps, ds, i + 1, Merge(bindings, r.b))

\* the matcher without the comparison of the lengths
FixdListMatcher_anylength(ps, data) ==
    IF data.t # "list" THEN Raise("TypeMismatch")
    ELSE MatchElements(ps, data.v, 1, <<>>)

FixdListMatcher(ps, data) ==
    IF data.t # "list" THEN Raise("TypeMismatch")
    ELSE IF Len(data.v) # Len(ps) THEN Raise("LengthMismatch")
    ELSE MatchElements(ps, data.v, 1, <<>>)

\* the loop with "break" in place of "continue"
RepeatLoop_break(rep, ds, i, bindings) ==
    IF i > Len(ds) THEN Ok(bindings)
    ELSE LET r == Match(rep, ds[i])
         IN  IF r.kind = "Skip" THEN Ok(bindings)
             ELSE IF r.kind # "ok" THEN r
             ELSE LET a == AppendAll(bindings, r.b)
                  IN  IF a.kind # "ok" THEN a
                      ELSE RepeatLoop(rep, ds, i + 1, a.b)

\* for d in data[n_prefix:]: try: bnd = repeating_matcher(d) except Skip: continue ...
RepeatLoop(rep, ds, i, bindings) ==
    IF i > Len(ds) THEN Ok(bindings)
    ELSE LET r == Match(rep, ds[i])
         IN  IF r.kind = "Skip" THEN RepeatLoop(rep, ds, i + 1, bindings)
             ELSE IF r.kind # "ok" THEN r
             ELSE LET a == AppendAll(bindings, r.b)
                  IN  IF a.kind # "ok" THEN a
                      ELSE RepeatLoop(rep, ds, i + 1, a.b)

\* the matcher that demands at least one repetition (len(data) <= n_prefix fails)
RepeatingListMatcher_strict(patterns, data) ==
    LET repeating == patterns[Len(patterns)]
        prefix == SubSeq(patterns, 1, Len(patterns) - 1)
        n_prefix == Len(prefix)
        bound_optional_names == DOMAIN find_bindings(repeating, 0)
    IN  IF data.t # "list" THEN SliceNonList(data)
        ELSE IF Len(data.v) <= n_prefix THEN Raise("LengthMismatch")
        ELSE LET pre == FixdListMatcher(prefix, PyList(Slice(data.v, 0, n_prefix)))
             IN  IF pre.kind # "ok" THEN pre
                 ELSE LET seeded == PreSeed(pre.b, bound_optional_names)
                      IN  IF seeded.kind # "ok" THEN seeded
                          ELSE RepeatLoop(repeating,
                                          Slice(data.v, n_prefix, Len(data.v)),
                                          1, seeded.b)

\* the matcher that goes on to the repeated elements when the prefix failed
RepeatingListMatcher_lenient(patterns, data) ==
    LET repeating == patterns[Len(patterns)]
        prefix == SubSeq(patterns, 1, Len(patterns) - 1)
        n_prefix == Len(prefix)
        bound_optional_names == DOMAIN find_bindings(repeating, 0)
    IN  IF data.t # "list" THEN SliceNonList(data)
        ELSE LET pre == FixdListMatcher(prefix, PyList(Slice(data.v, 0, n_prefix)))
                 seeded == PreSeed(IF pre.kind = "ok" THEN pre.b ELSE <<>>,
                                   bound_optional_names)
             IN  IF seeded.kind # "ok" THEN seeded
                 ELSE RepeatLoop(repeating, Slice(data.v, n_prefix, Len(data.v)),
                                 1, seeded.b)

\* patterns: the elements before the trailing ellipsis; the last one repeats
RepeatingListMatcher(patterns, data) ==
    LET repeating == patterns[Len(patterns)]
        prefix == SubSeq(patterns, 1, Len(patterns) - 1)
        n_prefix == Len(prefix)
        bound_optional_names == DOMAIN find_bindings(repeating, 0)
    IN  IF data.t # "list" THEN SliceNonList(data)
        ELSE LET pre == FixdListMatcher(prefix, PyList(Slice(data.v, 0, n_prefix)))
             IN  IF pre.kind # "ok" THEN pre
                 ELSE LET seeded == PreSeed(pre.b, bound_optional_names)
                      IN  IF seeded.kind # "ok" THEN seeded
                          ELSE RepeatLoop(repeating,
                                          Slice(data.v, n_prefix, Len(data.v)),
                                          1, seeded.b)

DictLoop(p, mapping, i, bindings) ==
    IF i > Len(p.keys) THEN Ok(bindings)
    ELSE LET d == lookup(mapping, p.keys[i])
         IN  IF d.kind # "ok" THEN d
             ELSE LET r == Match(p.pats[i], d.b["d"])
                  IN  IF r.kind # "ok" THEN r
                      ELSE DictLoop(p, mapping, i + 1, Merge(bindings, r.b))

DictMatcher(p, data) ==
    IF data.t # "dict" THEN Raise("TypeMismatch")
    ELSE DictLoop(p, data.v, 1, <<>>)

\* the matcher with "except Exception" in place of "except Mismatch"
BindingMatcher_catchall(p, data) ==
    LET r == Match(p.p, data)
    IN  IF r.kind = "ok" THEN Ok(Merge(r.b, (p.name :> data)))
        ELSE IF p.hasDefault THEN Ok(p.name :> p.dflt)
        ELSE r

\* the matcher that binds the datum where the default is due
BindingMatcher_datum(p, data) ==
    LET r == Match(p.p, data)
    IN  IF r.kind = "ok" THEN Ok(Merge(r.b, (p.name :> data)))
        ELSE IF IsMismatch(r) /\ p.hasDefault THEN Ok(p.name :> data)
        ELSE r

BindingMatcher(p, data) ==
    LET r == Match(p.p, data)
    IN  IF r.kind = "ok" THEN Ok(Merge(r.b, (p.name :> data)))
        ELSE IF IsMismatch(r) /\ p.hasDefault THEN Ok(p.name :> p.dflt)
        ELSE r

ErrorHandlingMatcher(p, data) ==
    LET r == Match(p.p, data)
    IN  IF r.kind = "ok" THEN r
        ELSE IF SkipPredicate(p, r) THEN Raise("Skip")
        ELSE r

build_list_matcher(p, data) ==
    LET n == Len(p.items)
    IN  IF n = 1 /\ p.items[1].k = "ellipsis" THEN InstanceMatcher(data)
        ELSE IF n >= 1 /\ p.items[n].k = "ellipsis"
             THEN RepeatingListMatcher(SubSeq(p.items, 1, n - 1), data)
        ELSE FixdListMatcher(p.items, data)

Match(p, data) ==
    CASE p.k = "bind" -> BindMatcher(p, data)
      [] p.k = "bind_as" -> BindingMatcher(p, data)
      [] p.k \in {"skip_mismatch", "skip_missing_keys"} -> ErrorHandlingMatcher(p, data)
      [] p.k = "list" -> build_list_matcher(p, data)
      [] p.k = "dict" -> DictMatcher(p, data)
      [] p.k = "type" -> TypeMatcher(p, data)
      [] p.k = "ellipsis" -> LiteralMatcher(EllipsisValue, data)
      [] OTHER -> LiteralMatcher(p.v, data)

(***************************************************************************)
(* Template model and instantiators (matcho.py).                           *)
(***************************************************************************)
Insert(name) == [k |-> "insert", name |-> name]
TList(items) == [k |-> "list", items |-> items]
TDict(keys, vals) == [k |-> "dict", keys |-> keys, vals |-> vals]

TOk(v) == [kind |-> "ok", msg |-> "", v |-> v]
TRaise(kind, msg) == [kind |-> kind, msg |-> msg, v |-> PyInt(0)]
StillRepeating == TRaise("ValueError", "is still repeating at this level")
RepeatLengthMismatch == TRaise("ValueError", "number of values does not match other bindings")
NoRepeatedBindings == TRaise("ValueError", "no repeated bindings")

\* the mappings of the model are keyed by strings: an int key is its numeral
DictKey(v) == IF v.t = "str" THEN v.v ELSE ToString(v.v)

\* the descent that consumes the coordinate from its last index
RECURSIVE get_nested_innermost(_, _)
get_nested_innermost(value, nesting_level) ==
    IF nesting_level = <<>> THEN TOk(value)
    ELSE IF value.t # "rep" THEN TOk(value)
    ELSE IF nesting_level[Len(nesting_level)] >= Len(value.v) THEN TRaise("IndexError", "")
    ELSE get_nested_innermost(value.v[nesting_level[Len(nesting_level)] + 1],
                              SubSeq(nesting_level, 1, Len(nesting_level) - 1))

RECURSIVE get_nested(_, _)
get_nested(value, nesting_level) ==
    IF nesting_level = <<>> THEN TOk(value)
    ELSE IF value.t # "rep" THEN TOk(value)
    ELSE IF nesting_level[1] >= Len(value.v) THEN TRaise("IndexError", "")
    ELSE get_nested(value.v[nesting_level[1] + 1], Tail(nesting_level))

RECURSIVE find_insertions(_)
find_insertions(template) ==
    CASE template.k = "insert" -> {template.name}
      [] template.k = "list" ->
            UNION {find_insertions(template.items[i]) : i \in 1..Len(template.items)}
      [] template.k = "dict" ->
            UNION {find_insertions(template.keys[i]) \cup find_insertions(template.vals[i]) :
                      i \in 1..Len(template.keys)}
      [] OTHER -> {}

\* the loop that takes the length of the first Repeating and compares no other
RECURSIVE RepetitionLoop_first(_, _, _, _)
RepetitionLoop_first(bindings, nesting_level, names, length) ==
    IF names = <<>> THEN (IF length = -1 THEN NoRepeatedBindings ELSE TOk(PyInt(length)))
    ELSE IF names[1] \notin DOMAIN bindings THEN TRaise("KeyError", names[1])
    ELSE LET value == get_nested(bindings[names[1]], nesting_level)
         IN  IF value.kind # "ok" THEN value
             ELSE IF value.v.t = "rep" /\ length = -1
                  THEN RepetitionLoop_first(bindings, nesting_level, Tail(names), Len(value.v.v))
             ELSE RepetitionLoop_first(bindings, nesting_level, Tail(names), length)

\* the loop that takes a missing length for no repetition at all
RECURSIVE RepetitionLoop_zero(_, _, _, _)
RepetitionLoop_zero(bindings, nesting_level, names, length) ==
    IF names = <<>> THEN (IF length = -1 THEN TOk(PyInt(0)) ELSE TOk(PyInt(length)))
    ELSE IF names[1] \notin DOMAIN bindings THEN TRaise("KeyError", names[1])
    ELSE LET value == get_nested(bindings[names[1]], nesting_level)
         IN  IF value.kind # "ok" THEN value
             ELSE IF value.v.t # "rep"
                  THEN RepetitionLoop_zero(bindings, nesting_level, Tail(names), length)
             ELSE IF length = -1
                  THEN RepetitionLoop_zero(bindings, nesting_level, Tail(names), Len(value.v.v))
             ELSE IF Len(value.v.v) # length THEN RepeatLengthMismatch
             ELSE RepetitionLoop_zero(bindings, nesting_level, Tail(names), length)

\* the loop of common_repetition_length over the names still to examine;
\* length = -1 stands for None
RECURSIVE RepetitionLoop(_, _, _, _)
RepetitionLoop(bindings, nesting_level, names, length) ==
    IF names = <<>> THEN (IF length = -1 THEN NoRepeatedBindings ELSE TOk(PyInt(length)))
    ELSE IF names[1] \notin DOMAIN bindings THEN TRaise("KeyError", names[1])
    ELSE LET value == get_nested(bindings[names[1]], nesting_level)
         IN  IF value.kind # "ok" THEN value
             ELSE IF value.v.t # "rep"
                  THEN RepetitionLoop(bindings, nesting_level, Tail(names), length)
             ELSE IF length = -1
                  THEN RepetitionLoop(bindings, nesting_level, Tail(names), Len(value.v.v))
             ELSE IF Len(value.v.v) # length THEN RepeatLengthMismatch
             ELSE RepetitionLoop(bindings, nesting_level, Tail(names), length)

\* the names of a set in the order this process iterates them
IterationOrder(used_names) == SelectSeq(order, LAMBDA n : n \in used_names)

common_repetition_length(bindings, nesting_level, used_names) ==
    RepetitionLoop(bindings, nesting_level, IterationOrder(used_names), -1)

\* the flattening that assigns each inner sequence instead of extending by it
RECURSIVE flatten_last(_)
flatten_last(sequence) ==
    IF sequence = <<>> THEN <<>>
    ELSE IF Tail(sequence) = <<>> THEN Head(sequence).v
    ELSE flatten_last(Tail(sequence))

\* flatten(sequence) of a list of lists
RECURSIVE flatten(_)
flatten(sequence) ==
    IF sequence = <<>> THEN <<>> ELSE Head(sequence).v \o flatten(Tail(sequence))

InsertionTemplate(name, bindings, nesting_level) ==
    IF name \notin DOMAIN bindings THEN TRaise("KeyError", name)
    ELSE LET value == get_nested(bindings[name], nesting_level)
         IN  IF value.kind # "ok" THEN value
             ELSE IF value.v.t = "rep" THEN StillRepeating
             ELSE value

RECURSIVE Instantiate(_, _, _)
RECURSIVE InstantiateItems(_, _, _, _, _)
RECURSIVE InstantiateRange(_, _, _, _, _, _)
RECURSIVE instantiate_repeating(_, _, _, _)
RECURSIVE build_flattened_list(_, _, _)
RECURSIVE DictTemplate(_, _, _, _, _)

\* [x(bindings, nesting_level) for x in fixed_instantiators]
InstantiateItems(items, i, bindings, nesting_level, acc) ==
    IF i > Len(items) THEN TOk(PyList(acc))
    ELSE LET r == Instantiate(items[i], bindings, nesting_level)
         IN  IF r.kind # "ok" THEN r
             ELSE InstantiateItems(items, i + 1, bindings, nesting_level, Append(acc, r.v))

\* the comprehension over range(rep_len + 1)
InstantiateRange_inclusive(rep, i, rep_len, bindings, nesting_level, acc) ==
    IF i > rep_len THEN TOk(PyList(acc))
    ELSE LET r == Instantiate(rep, bindings, Append(nesting_level, i))
         IN  IF r.kind # "ok" THEN r
             ELSE InstantiateRange(rep, i + 1, rep_len, bindings, nesting_level,
                                   Append(acc, r.v))

\* [rep_instantiator(bindings, nesting_level + (i,)) for i in range(rep_len)]
InstantiateRange(rep, i, rep_len, bindings, nesting_level, acc) ==
    IF i >= rep_len THEN TOk(PyList(acc))
    ELSE LET r == Instantiate(rep, bindings, Append(nesting_level, i))
         IN  IF r.kind # "ok" THEN r
             ELSE InstantiateRange(rep, i + 1, rep_len, bindings, nesting_level,
                                   Append(acc, r.v))

\* the coordinate instantiate_repeating hands to the fixed items: it calls
\* instantiate(bindings), which leaves nesting_level at its default ()
FixedPartLevel(nesting_level) == <<>>

instantiate_repeating(items, rep, bindings, nesting_level) ==
    LET fixed_part == InstantiateItems(items, 1, bindings, FixedPartLevel(nesting_level), <<>>)
    IN  IF fixed_part.kind # "ok" THEN fixed_part
        ELSE LET rep_len == common_repetition_length(bindings, nesting_level,
                                                     find_insertions(rep))
             IN  IF rep_len.kind # "ok" THEN rep_len
                 ELSE LET variable_part ==
                              InstantiateRange(rep, 0, rep_len.v.v, bindings, nesting_level, <<>>)
                      IN  IF variable_part.kind # "ok" THEN variable_part
                          ELSE TOk(PyList(fixed_part.v.v \o variable_part.v.v))

build_flattened_list(items, bindings, nesting_level) ==
    LET deep_template == TList(<<TList(Append(items, ELLIPSIS)), ELLIPSIS>>)
        deep == Instantiate(deep_template, bindings, nesting_level)
    IN  IF deep.kind # "ok" THEN deep ELSE TOk(PyList(flatten(deep.v.v)))

\* {k(bindings, nesting_level): v(bindings, nesting_level) for k, v in item_instantiators.items()}
DictTemplate(template, i, bindings, nesting_level, acc) ==
    IF i > Len(template.keys) THEN TOk(PyDict(acc))
    ELSE LET key == Instantiate(template.keys[i], bindings, nesting_level)
         IN  IF key.kind # "ok" THEN key
             ELSE LET val == Instantiate(template.vals[i], bindings, nesting_level)
                  IN  IF val.kind # "ok" THEN val
                      ELSE IF key.v.t \in {"list", "dict", "rep"}
                           THEN TRaise("TypeError", "unhashable")
                      ELSE DictTemplate(template, i + 1, bindings, nesting_level,
                                        Merge(acc, (DictKey(key.v) :> val.v)))

build_list_template(template, bindings, nesting_level) ==
    LET items == template.items
        n == Len(items)
    IN  IF n >= 2 /\ items[n].k = "ellipsis" /\ items[n - 1].k = "ellipsis"
        THEN build_flattened_list(SubSeq(items, 1, n - 2), bindings, nesting_level)
        ELSE IF n >= 2 /\ items[n].k = "ellipsis"
        THEN instantiate_repeating(SubSeq(items, 1, n - 2), items[n - 1], bindings,
                                   nesting_level)
        ELSE InstantiateItems(items, 1, bindings, nesting_level, <<>>)

Instantiate(spec, bindings, nesting_level) ==
    CASE spec.k = "insert" -> InsertionTemplate(spec.name, bindings, nesting_level)
      [] spec.k = "list" -> build_list_template(spec, bindings, nesting_level)
      [] spec.k = "dict" -> DictTemplate(spec, 1, bindings, nesting_level, <<>>)
      [] spec.k = "ellipsis" -> TOk(EllipsisValue)
      [] OTHER -> TOk(spec.v)

RECURSIVE TemplateBuildFails(_)
TemplateBuildFails(spec) ==
    CASE spec.k = "list" ->
            \/ EllipsisNotLast(spec.items)
            \/ \E i \in 1..Len(spec.items) : TemplateBuildFails(spec.items[i])
      [] spec.k = "dict" ->
            \E i \in 1..Len(spec.keys) :
                TemplateBuildFails(spec.keys[i]) \/ TemplateBuildFails(spec.vals[i])
      [] OTHER -> FALSE

(***************************************************************************)
(* Inputs.                                                                 *)
(***************************************************************************)
MaxLen == 3        \* longest generated flat list
MaxRep == 2        \* longest generated flat Repeating
MaxIndex == 1      \* largest index of a caller-supplied nesting coordinate

Names == {"x", "y", "z"}
Atoms == {1, 2, 3}

RECURSIVE SeqsUpTo(_, _)
SeqsUpTo(S, n) ==
    IF n = 0 THEN {<<>>}
    ELSE LET shorter == SeqsUpTo(S, n - 1)
         IN  shorter \cup {Append(q, e) : q \in {r \in shorter : Len(r) = n - 1}, e \in S}

AtomValues == {PyInt(a) : a \in Atoms}
FlatLists == {PyList(q) : q \in SeqsUpTo(AtomValues, MaxLen)}

L1(a) == PyList(<<a>>)
L2(a, b) == PyList(<<a, b>>)
L3(a, b, c) == PyList(<<a, b, c>>)
L4(a, b, c, d) == PyList(<<a, b, c, d>>)
I1 == PyInt(1)
I2 == PyInt(2)
I3 == PyInt(3)
EmptyDict == PyDict(<<>>)
DX(a) == PyDict("x" :> a)
DY(b) == PyDict("y" :> b)
DXY(a, b) == PyDict("x" :> a @@ "y" :> b)

ExtraData ==
    { I1, I2, PyStr("s"), PyStr("42"), EmptyDict, DX(I1), DXY(I1, I2),
      DXY(I1, PyList(<<>>)), DXY(I1, L2(I2, I3)), DXY(I1, L2(I1, I3)), DXY(PyStr("s"), I1),
      L4(I1, I2, I3, I3), PyList(<<I1, I2, I3, I3, I3>>), L4(I1, I2, I3, PyInt(4)),
      L2(L2(I1, I2), L1(I3)),
      L3(L2(I1, I2), L1(I1), L2(I1, I3)),
      L3(L2(I1, I2), L2(I2, I2), L2(I1, I3)),
      L2(L2(I1, I2), I3),
      L2(I1, PyStr("s")),
      L3(DX(I1), EmptyDict, DX(I2)),
      L4(DXY(I1, I1), DX(I2), DY(I3), DXY(I2, I3)),
      L2(DXY(I1, L1(I3)), DXY(I2, PyList(<<>>))),
      L3(DXY(I1, L1(I3)), DX(I2), DXY(I3, I1)),
      L3(I1, DX(I2), DX(I3)),
      L3(I1, DX(I2), DY(I3)),
      L3(L1(I1), I2, L2(I2, I3)),
      L2(L1(I1), L2(I2, I3)),
      DY(I1), DXY(I2, I1), PyDict("y" :> I1 @@ "z" :> I2),
      L4(DXY(I1, L2(EmptyDict, L2(I1, I2))), DXY(I2, L1(EmptyDict)),
         DXY(I3, L2(EmptyDict, L2(I1, I3))), DX(PyInt(4))),
      L3(L2(L2(I1, I2), L2(I2, I2)), L1(L2(I1, I3)), L1(L2(I2, I2))) }

DataSet == FlatLists \cup ExtraData

DictXY(px, py) == PDict(<<Key("x"), Key("y")>>, <<px, py>>)
Rep1(p) == PList(<<p, ELLIPSIS>>)
Rep2(p, q) == PList(<<p, q, ELLIPSIS>>)

PatternSet ==
    { Lit(I1), bind("x"), Bind("x", "int"), PType("int"),
      PList(<<ELLIPSIS>>),
      PList(<<bind("x"), bind("y")>>),
      Rep1(Lit(I1)),
      Rep1(bind("x")),
      Rep2(Lit(I1), bind("x")),
      Rep2(bind("y"), bind("x")),
      PList(<<Lit(I1), Lit(I2), Lit(I3), ELLIPSIS>>),
      Rep1(Rep1(bind("x"))),
      Rep2(bind("y"), Rep2(bind("z"), bind("x"))),
      Rep1(PList(<<bind("x"), bind("y")>>)),
      Rep1(SkipOnMismatch(PList(<<Lit(I1), bind("x")>>))),
      Rep1(SkipOnMismatch(PList(<<bind("x"), Lit(I2)>>))),
      Rep1(PDict(<<Key("x")>>, <<bind("x")>>)),
      Rep1(SkipMissingKeys({"x"}, PDict(<<Key("x")>>, <<bind("x")>>))),
      Rep1(SkipMissingKeys({"x", "y"}, DictXY(bind("x"), bind("y")))),
      Rep1(SkipMissingKeys({"y"}, DictXY(bind("x"), bind("y")))),
      Rep1(SkipMissingKeys({"y"}, DictXY(bind("x"), Lit(I1)))),
      Rep1(DictXY(bind("x"), Rep1(bind("y")))),
      Rep1(SkipMissingKeys({"y"}, DictXY(bind("x"), SkipOnMismatch(Rep1(bind("y")))))),
      Rep1(BindAs("z", Rep1(bind("x")), TRUE, PyInt(0))),
      Rep2(Lit(I1), bind_as("z", DictXY(bind("x"), bind("y")))),
      PDict(<<Default("x", PyInt(42))>>, <<bind("y")>>),
      SkipOnMismatch(Lit(I1)),
      SkipOnMismatch(DictXY(Bind("x", "int"), PList(<<Lit(I1), bind("y")>>))),
      SkipMissingKeys({"x"}, DictXY(Bind("x", "int"), PList(<<Lit(I1), bind("y")>>))),
      SkipMissingKeys({"y"}, SkipOnMismatch(PDict(<<Key("x")>>, <<Lit(I1)>>))),
      SkipOnMismatch(Rep1(bind("x"))),
      SkipMissingKeys({"x"}, PDict(<<Key("x")>>, <<bind("x")>>)),
      Rep2(SkipOnMismatch(Lit(I1)), bind("x")),
      Rep2(bind("x"), bind("x")),
      PList(<<bind("x"), bind("x")>>),
      DictXY(bind("x"), bind("x")),
      PList(<<Lit(I1), ELLIPSIS, Lit(I2)>>),
      PList(<<Lit(I1), ELLIPSIS, Lit(I2), ELLIPSIS>>),
      PDict(<<>>, <<>>),
      bind_as("z", Rep1(bind("x"))),
      BindAs("z", Rep2(Lit(I1), bind("x")), TRUE, PyStr("D")),
      bind_as("x", Bind("y", "int")),
      BindAs("x", PList(<<ELLIPSIS>>), TRUE, PyStr("D")),
      SkipOnMismatch(Bind("x", "int")),
      SkipOnMismatch(PType("int")),
      DictXY(bind("x"), bind("y")),
      DictXY(Lit(I1), Rep1(bind("y"))),
      PDict(<<Default("x", PyInt(42)), Key("y")>>, <<bind("x"), Lit(I1)>>),
      PDict(<<Key("x")>>, <<Rep1(PList(<<Lit(I1), ELLIPSIS, bind("x"), ELLIPSIS>>))>>),
      Rep1(PList(<<ELLIPSIS, bind("x")>>)),
      Rep1(SkipMissingKeys({"y"},
               DictXY(bind("x"),
                      SkipOnMismatch(PList(<<PDict(<<>>, <<>>), Rep1(bind("z"))>>))))),
      Rep1(BindAs("z", SkipOnMismatch(PList(<<Lit(I1), bind("x")>>)), TRUE, PyInt(0))),
      Rep1(BindAs("z", PList(<<Lit(I1), bind("x")>>), TRUE, PyInt(0))),
      Rep1(Rep2(SkipOnMismatch(Lit(I1)), bind("x"))),
      Rep1(Rep1(SkipOnMismatch(PList(<<Lit(I1), bind("x")>>)))) }

NoPattern == [k |-> "none"]
NoFirst == [data |-> [t |-> "none", v |-> 0], res |-> NotCalled, later |-> 0]
NoData == [t |-> "none", v |-> 0]
TNotCalled == TRaise("none", "")
DefaultOrder == <<"x", "y", "z">>

\* the invocations that may be in progress at the same time
Invocations == {1, 2}
Idle ==
    [state |-> "idle", input |-> NoData, ops |-> <<>>, pc |-> 0, out |-> NotCalled,
     mixed |-> FALSE]
NoInvocations == [t \in Invocations |-> Idle]

(***************************************************************************)
(* The matcher: build_matcher(pattern), then calls of the matcher.         *)
(***************************************************************************)
Init ==
    /\ sliceHashable \in BOOLEAN
    /\ first = NoFirst
    /\ heap = <<>>
    /\ procs = NoInvocations
    /\ order = DefaultOrder
    /\ pat = NoPattern
    /\ built = "none"
    /\ mdata = NoData
    /\ mres = NotCalled
    /\ tmpl = NoPattern
    /\ tbuilt = "none"
    /\ args = <<>>
    /\ coord = <<>>
    /\ tres = TNotCalled

build_matcher(p) ==
    /\ pat' = p
    /\ built' = IF BuildFails(p) THEN "ValueError" ELSE "ok"
    /\ mdata' = NoData
    /\ mres' = NotCalled
    /\ UNCHANGED <<sliceHashable, order, heap, procs, first, tmpl, tbuilt, args, coord, tres>>

CallMatcher(d) ==
    /\ built = "ok"
    /\ mdata' = d
    /\ mres' = Match(pat, d)
    /\ UNCHANGED <<sliceHashable, order, heap, procs, first, pat, built, tmpl, tbuilt, args, coord, tres>>

Next ==
    \/ \E p \in PatternSet : build_matcher(p)
    \/ \E d \in DataSet : CallMatcher(d)

Spec == Init /\ [][Next]_vars

(***************************************************************************)
(* The instantiator: build_template(spec), then calls of the instantiator  *)
(* on the caller's bindings.                                               *)
(***************************************************************************)
Ramp(n) == Repeating([i \in 1..n |-> PyInt(i)])
Nest(n) == Repeating([i \in 1..n |-> Ramp(i)])
Ragged == Repeating(<<PyInt(5), Ramp(MaxRep)>>)
Cube == Repeating(<<Nest(1), Nest(2)>>)

ValueChoices(name) ==
    IF name = "z" THEN {PyInt(0), Ragged, Cube, Nest(1), Nest(2)}
    ELSE IF name = "y" THEN {PyInt(0), Ramp(1), Ramp(MaxRep)}
    ELSE {PyInt(0)} \cup {Ramp(n) : n \in 0..MaxRep}

Levels ==
    {<<>>} \cup {<<i>> : i \in 0..MaxIndex} \cup {<<i, j>> : i, j \in 0..1}

TRep1(t) == TList(<<t, ELLIPSIS>>)
TRep2(s, t) == TList(<<s, t, ELLIPSIS>>)
XY == TList(<<Insert("x"), Insert("y")>>)
XYZ == TList(<<Insert("x"), Insert("y"), Insert("z")>>)

TemplateSet ==
    { Lit(PyInt(42)), Insert("x"), Insert("z"),
      TList(<<Insert("x"), Insert("y")>>),
      TRep1(Insert("x")),
      TRep2(Lit(PyStr("foo")), Insert("x")),
      TRep1(XY),
      TRep1(XYZ),
      TRep1(TRep1(XYZ)),
      TList(<<XYZ, ELLIPSIS, ELLIPSIS>>),
      TList(<<Insert("z"), ELLIPSIS, ELLIPSIS>>),
      TList(<<Insert("z"), ELLIPSIS, ELLIPSIS, ELLIPSIS>>),
      TRep2(Insert("y"), Insert("x")),
      TRep2(Insert("y"), Insert("z")),
      TRep1(TRep2(Insert("y"), Insert("z"))),
      TRep1(Lit(PyInt(5))),
      TRep1(TList(<<Lit(PyInt(5)), Insert("y")>>)),
      TDict(<<Lit(PyStr("r"))>>, <<TRep1(Insert("x"))>>),
      TRep1(TDict(<<Insert("y")>>, <<Insert("x")>>)),
      TList(<<ELLIPSIS>>),
      TList(<<ELLIPSIS, Lit(PyInt(0))>>),
      TList(<<Lit(PyInt(0)), ELLIPSIS, Lit(PyInt(1))>>),
      TList(<<Lit(PyInt(0)), ELLIPSIS, Lit(PyInt(1)), ELLIPSIS>>) }

\* every order in which a set of the names may be iterated
Orders ==
    {q \in [1..Cardinality(Names) -> Names] : \A i, j \in DOMAIN q : i # j => q[i] # q[j]}

TemplateInit ==
    /\ sliceHashable = FALSE
    /\ first = NoFirst
    /\ heap = <<>>
    /\ procs = NoInvocations
    /\ order \in Orders
    /\ pat = NoPattern
    /\ built = "none"
    /\ mdata = NoData
    /\ mres = NotCalled
    /\ tmpl = NoPattern
    /\ tbuilt = "none"
    /\ args = <<>>
    /\ coord = <<>>
    /\ tres = TNotCalled

build_template(spec) ==
    /\ tmpl' = spec
    /\ tbuilt' = IF TemplateBuildFails(spec) THEN "ValueError" ELSE "ok"
    /\ tres' = TNotCalled
    /\ UNCHANGED <<sliceHashable, order, heap, procs, first, pat, built, mdata, mres, args, coord>>

\* the caller prepares the arguments of the next call
SetBinding(name, value) ==
    /\ args' = Merge(args, (name :> value))
    /\ tres' = TNotCalled
    /\ UNCHANGED <<sliceHashable, order, heap, procs, first, pat, built, mdata, mres, tmpl, tbuilt, coord>>

DelBinding(name) ==
    /\ name \in DOMAIN args
    /\ args' = [n \in DOMAIN args \ {name} |-> args[n]]
    /\ tres' = TNotCalled
    /\ UNCHANGED <<sliceHashable, order, heap, procs, first, pat, built, mdata, mres, tmpl, tbuilt, coord>>

SetLevel(nesting_level) ==
    /\ coord' = nesting_level
    /\ tres' = TNotCalled
    /\ UNCHANGED <<sliceHashable, order, heap, procs, first, pat, built, mdata, mres, tmpl, tbuilt, args>>

CallTemplate ==
    /\ tbuilt = "ok"
    /\ tres' = Instantiate(tmpl, args, coord)
    /\ UNCHANGED <<sliceHashable, order, heap, procs, first, pat, built, mdata, mres, tmpl, tbuilt, args, coord>>

TemplateNext ==
    \/ \E spec \in TemplateSet : build_template(spec)
    \/ \E name \in Names : \E value \in ValueChoices(name) : SetBinding(name, value)
    \/ \E name \in Names : DelBinding(name)
    \/ \E nesting_level \in Levels : SetLevel(nesting_level)
    \/ CallTemplate

TemplateSpec == TemplateInit /\ [][TemplateNext]_vars

(***************************************************************************)
(* Vocabulary of the properties.                                           *)
(***************************************************************************)
\* the capture names written in a pattern
RECURSIVE CaptureNames(_)
CaptureNames(p) ==
    CASE p.k = "bind" -> {p.name}
      [] p.k = "bind_as" -> {p.name} \cup CaptureNames(p.p)
      [] p.k \in {"skip_mismatch", "skip_missing_keys"} -> CaptureNames(p.p)
      [] p.k = "list" -> UNION {CaptureNames(p.items[i]) : i \in 1..Len(p.items)}
      [] p.k = "dict" -> UNION {CaptureNames(p.pats[i]) : i \in 1..Len(p.pats)}
      [] OTHER -> {}

\* [p0, ..., pk-1, p_last, ...]: a list pattern that builds a RepeatingListMatcher
IsRepeatingPattern(p) ==
    /\ p.k = "list"
    /\ Len(p.items) >= 2
    /\ p.items[Len(p.items)].k = "ellipsis"
PrefixOf(p) == SubSeq(p.items, 1, Len(p.items) - 2)
RepeatedOf(p) == p.items[Len(p.items) - 1]
Called == mres.kind # "none"
Matched == mres.kind = "ok"

(***************************************************************************)
(* C1  Empty-repetition invariant: whenever a repeating-list pattern       *)
(* matches, every name its repeated sub-pattern can bind is present in the *)
(* returned bindings as a Repeating, also when zero elements were matched; *)
(* [bind('x'), ...] against [] yields {x: Repeating([])}.                  *)
(***************************************************************************)
C1_EmptyRepetition ==
    /\ (Matched /\ IsRepeatingPattern(pat)) =>
          \A n \in CaptureNames(RepeatedOf(pat)) :
              n \in DOMAIN mres.b /\ mres.b[n].t = "rep"
    /\ (Called /\ IsRepeatingPattern(pat) /\ PrefixOf(pat) = <<>> /\ mdata = PyList(<<>>)) =>
          mres = Ok([n \in CaptureNames(RepeatedOf(pat)) |-> Repeating(<<>>)])

C1_Witness ==
    /\ IsRepeatingPattern(pat)
    /\ pat.items[1].k = "bind_as"
    /\ mdata = PyList(<<>>)
    /\ mres = Ok("x" :> Repeating(<<>>) @@ "z" :> Repeating(<<>>))

\* the data elements a repeating-list pattern matches against its repeated part
RestOf(p, d) == Slice(d.v, Len(PrefixOf(p)), Len(d.v))
Skipped(p, e) == Match(RepeatedOf(p), e).kind = "Skip"
Kept(p, d) == SelectSeq(RestOf(p, d), LAMBDA e : ~Skipped(p, e))
WithoutSkipped(p, d) == PyList(Slice(d.v, 0, Len(PrefixOf(p))) \o Kept(p, d))

(***************************************************************************)
(* C2  Skip semantics: when the repeated sub-matcher signals Skip for an   *)
(* element, nothing from that element reaches any accumulator (not even    *)
(* names bound before the failure) and matching continues with the next    *)
(* element: the outcome is the outcome on the data without the skipped     *)
(* elements, and no accumulator is longer than the number of elements      *)
(* kept.  [skip_mismatch([1, bind('x')]), ...] against [[1,2],[1],[1,3]]   *)
(* yields {x: Repeating([2,3])}.                                           *)
(***************************************************************************)
C2_SkipSemantics ==
    /\ (Called /\ IsRepeatingPattern(pat) /\ mdata.t = "list") =>
          /\ mres = Match(pat, WithoutSkipped(pat, mdata))
          /\ Matched =>
                \A n \in CaptureNames(RepeatedOf(pat)) :
                    Len(mres.b[n].v) <= Len(Kept(pat, mdata))
    /\ (Called /\ pat = Rep1(SkipOnMismatch(PList(<<Lit(I1), bind("x")>>)))
               /\ mdata = L3(L2(I1, I2), L1(I1), L2(I1, I3))) =>
          mres = Ok("x" :> Repeating(<<I2, I3>>))

\* {x: 2} binds x and then misses y: the element is skipped as a whole
C2_Witness ==
    /\ pat = Rep1(SkipMissingKeys({"x", "y"}, DictXY(bind("x"), bind("y"))))
    /\ mdata = L4(DXY(I1, I1), DX(I2), DY(I3), DXY(I2, I3))
    /\ Skipped(pat, mdata.v[2])
    /\ mres = Ok("x" :> Repeating(<<I1, I2>>) @@ "y" :> Repeating(<<I1, I3>>))

(***************************************************************************)
(* C3  A call of the top-level matcher never ends with the Skip signal     *)
(* reaching the caller.                                                    *)
(***************************************************************************)
C3_SkipNeverEscapes == Called => mres.kind # "Skip"

(***************************************************************************)
(* C4  skip_missing_keys(keys, sub) turns a failure of sub into Skip only  *)
(* when it is a KeyMismatch whose key is one of keys; every other outcome  *)
(* of sub is the outcome of the wrapper.  skip_mismatch(sub) turns every   *)
(* Mismatch of sub into Skip.                                              *)
(***************************************************************************)
C4_SkipWrappers ==
    /\ (Called /\ pat.k = "skip_missing_keys") =>
          LET sub == Match(pat.p, mdata)
          IN  mres = IF sub.kind = "KeyMismatch" /\ sub.key \in pat.keys
                     THEN Raise("Skip") ELSE sub
    /\ (Called /\ pat.k = "skip_mismatch") =>
          LET sub == Match(pat.p, mdata)
          IN  mres = IF sub.kind \in MismatchKinds THEN Raise("Skip") ELSE sub

\* the key y is missing and is not listed: the KeyMismatch passes through
C4_Witness ==
    /\ pat.k = "skip_missing_keys"
    /\ pat.keys = {"x"}
    /\ mdata = DX(I1)
    /\ mres = KeyMismatch("y")

(***************************************************************************)
(* C5  Nested capture depth: after a successful match the value bound to   *)
(* a name is wrapped in exactly d Repeating layers along every index path, *)
(* d being the number of repeating-list patterns whose repeated element    *)
(* encloses the capture site.  [[bind('x'), ...], ...] against [[1,2],[3]] *)
(* yields {x: Repeating([Repeating([1,2]), Repeating([3])])}.              *)
(***************************************************************************)
RECURSIVE SiteDepths(_, _)
SiteDepths(p, d) ==
    CASE p.k = "bind" -> {<<p.name, d>>}
      [] p.k = "bind_as" -> {<<p.name, d>>} \cup SiteDepths(p.p, d)
      [] p.k \in {"skip_mismatch", "skip_missing_keys"} -> SiteDepths(p.p, d)
      [] p.k = "list" ->
            IF IsRepeatingPattern(p)
            THEN SiteDepths(RepeatedOf(p), d + 1) \cup
                 UNION {SiteDepths(PrefixOf(p)[i], d) : i \in 1..Len(PrefixOf(p))}
            ELSE UNION {SiteDepths(p.items[i], d) : i \in 1..Len(p.items)}
      [] p.k = "dict" -> UNION {SiteDepths(p.pats[i], d) : i \in 1..Len(p.pats)}
      [] OTHER -> {}

RECURSIVE ExactDepth(_, _)
ExactDepth(v, d) ==
    IF d = 0 THEN v.t # "rep"
    ELSE v.t = "rep" /\ \A i \in 1..Len(v.v) : ExactDepth(v.v[i], d - 1)

C5_NestedDepth ==
    /\ Matched =>
          \A n \in DOMAIN mres.b :
              \E sd \in SiteDepths(pat, 0) : sd[1] = n /\ ExactDepth(mres.b[n], sd[2])
    /\ (Called /\ pat = Rep1(Rep1(bind("x"))) /\ mdata = L2(L2(I1, I2), L1(I3))) =>
          mres = Ok("x" :> Repeating(<<Repeating(<<I1, I2>>), Repeating(<<I3>>)>>))

\* x two levels deep next to a prefix name one level deep
C5_Witness ==
    /\ pat = Rep2(bind("y"), Rep2(bind("z"), bind("x")))
    /\ mdata = L2(L1(I1), L2(I2, I3))
    /\ Matched
    /\ mres.b["x"] = Repeating(<<Repeating(<<I3>>)>>)
    /\ mres.b["z"] = Repeating(<<I2>>)
    /\ mres.b["y"] = L1(I1)

(***************************************************************************)
(* C6  A repeating-list pattern [p0, ..., pk-1, p_last, ...] matches every *)
(* list of length >= k whose first k elements match p0..pk-1 positionally  *)
(* and whose remaining elements each match p_last, a list of exactly k     *)
(* elements included: [1, 2, 3, ...] matches [1, 2], [1, 2, 3] and         *)
(* [1, 2, 3, 3] with no bindings, and [1, ...] matches [].  Patterns are   *)
(* those of the data model: no capture name is written twice.              *)
(***************************************************************************)
UniqueNames(p) ==
    /\ \A i \in 1..Len(PrefixOf(p)) :
          CaptureNames(PrefixOf(p)[i]) \cap CaptureNames(RepeatedOf(p)) = {}
    /\ \A i, j \in 1..Len(PrefixOf(p)) :
          i # j => CaptureNames(PrefixOf(p)[i]) \cap CaptureNames(PrefixOf(p)[j]) = {}

ElementsMatch(p, d) ==
    /\ d.t = "list"
    /\ Len(d.v) >= Len(PrefixOf(p))
    /\ \A i \in 1..Len(PrefixOf(p)) : Match(PrefixOf(p)[i], d.v[i]).kind = "ok"
    /\ \A i \in (Len(PrefixOf(p)) + 1)..Len(d.v) : Match(RepeatedOf(p), d.v[i]).kind = "ok"

P123 == PList(<<Lit(I1), Lit(I2), Lit(I3), ELLIPSIS>>)

TCalled == tres.kind # "none"

\* [items..., rep, ...]: a list template with one repetition marker
IsRepeatingTemplate(t) ==
    /\ t.k = "list"
    /\ Len(t.items) >= 2
    /\ t.items[Len(t.items)].k = "ellipsis"
    /\ t.items[Len(t.items) - 1].k # "ellipsis"
ItemsOf(t) == SubSeq(t.items, 1, Len(t.items) - 2)
RepOf(t) == t.items[Len(t.items) - 1]

\* the name is bound and the coordinate leads to a value of it
Resolves(n) == n \in DOMAIN args /\ get_nested(args[n], coord).kind = "ok"
ValueAt(n) == get_nested(args[n], coord).v
\* the names referenced in the repeated fragment that are Repeating at the coordinate
RepeatingAt(t) ==
    {n \in find_insertions(RepOf(t)) : Resolves(n) /\ ValueAt(n).t = "rep"}
CountAt(n) == Len(ValueAt(n).v)
AllResolve(t) == \A n \in find_insertions(RepOf(t)) : Resolves(n)
\* the outcome of the fixed items, which are instantiated before the fragment
FixedItems(t) == InstantiateItems(ItemsOf(t), 1, args, FixedPartLevel(coord), <<>>)

(***************************************************************************)
(* C8  Broadcasting result: a list template [items..., rep, ...]           *)
(* instantiated at coordinate c returns the items instantiated at c,       *)
(* followed by exactly count instantiations of rep made at c+(0,), ...,    *)
(* c+(count-1,) in index order, count being the common length of the names *)
(* of rep that are Repeating at c; a name that is not Repeating at c has   *)
(* the same value in every iteration.  [[insert x, insert y], ...] with    *)
(* {x: 0, y: Repeating([1, 2])} gives [[0, 1], [0, 2]]; count 0 gives no   *)
(* repeated element.                                                       *)
(***************************************************************************)
C8_Broadcasting ==
    /\ (TCalled /\ IsRepeatingTemplate(tmpl)) =>
          LET rep == RepOf(tmpl)
              reps == RepeatingAt(tmpl)
              items == InstantiateItems(ItemsOf(tmpl), 1, args, coord, <<>>)
          IN  (/\ AllResolve(tmpl)
               /\ reps # {}
               /\ \A m, n \in reps : CountAt(m) = CountAt(n)
               /\ items.kind = "ok"
               /\ \A n \in reps : \A i \in 0..(CountAt(n) - 1) :
                     Instantiate(rep, args, Append(coord, i)).kind = "ok") =>
                  LET count == CountAt(CHOOSE n \in reps : TRUE)
                  IN  /\ tres = TOk(PyList(items.v.v \o
                                 [i \in 1..count |->
                                     Instantiate(rep, args, Append(coord, i - 1)).v]))
                      /\ \A n \in find_insertions(rep) \ reps : \A i \in 0..(count - 1) :
                            get_nested(args[n], Append(coord, i)) = TOk(ValueAt(n))
    /\ (TCalled /\ tmpl = TRep1(XY) /\ coord = <<>>
               /\ args = ("x" :> PyInt(0) @@ "y" :> Ramp(2))) =>
          tres = TOk(L2(L2(PyInt(0), I1), L2(PyInt(0), I2)))
    /\ (TCalled /\ tmpl = TRep1(XY) /\ coord = <<>>
               /\ args = ("x" :> Ramp(0) @@ "y" :> PyInt(0))) =>
          tres = TOk(PyList(<<>>))

(***************************************************************************)
(* C9  When two names referenced inside the same repeated template         *)
(* fragment are both Repeating at the current coordinate with different    *)
(* lengths, instantiation (having instantiated the fixed items) fails with *)
(* the repeat-length-mismatch ValueError and returns no partial output,    *)
(* whatever the order in which the names are examined.                     *)
(***************************************************************************)
LengthsDiffer(t) == \E m, n \in RepeatingAt(t) : CountAt(m) # CountAt(n)

C9_LengthMismatchAnyOrder ==
    (TCalled /\ IsRepeatingTemplate(tmpl) /\ LengthsDiffer(tmpl)
             /\ FixedItems(tmpl).kind = "ok") =>
        tres = RepeatLengthMismatch

(***************************************************************************)
(* C9, amended  With two names of the fragment Repeating at the coordinate *)
(* with different lengths, instantiation always fails and returns no       *)
(* partial output.  The error is the repeat-length-mismatch ValueError, in *)
(* every order of examination, when every name referenced in the fragment  *)
(* is bound and resolves at the coordinate; with a name of the fragment    *)
(* that is unbound (or whose Repeating is too short for the coordinate) it *)
(* is that ValueError or the KeyError (IndexError) of that name, whichever *)
(* the order of examination meets first.  {x: Repeating([1, 2, 3]),        *)
(* y: Repeating([1, 2])} with [[insert x, insert y], ...] raises the       *)
(* ValueError.                                                             *)
(***************************************************************************)
C9_Amended ==
    (TCalled /\ IsRepeatingTemplate(tmpl) /\ LengthsDiffer(tmpl)) =>
        /\ tres.kind # "ok"
        /\ (FixedItems(tmpl).kind = "ok" /\ AllResolve(tmpl)) => tres = RepeatLengthMismatch
        /\ (FixedItems(tmpl).kind = "ok" /\ ~AllResolve(tmpl)) =>
              \/ tres = RepeatLengthMismatch
              \/ \E n \in find_insertions(RepOf(tmpl)) \ DOMAIN args :
                    tres = TRaise("KeyError", n)
              \/ tres.kind = "IndexError"

\* three names of which the examination starts at the one bound to a scalar
C9_Witness ==
    /\ tmpl = TRep1(XYZ)
    /\ coord = <<>>
    /\ "z" \in DOMAIN args /\ args["z"] = PyInt(0)
    /\ order[1] = "z"
    /\ LengthsDiffer(tmpl)
    /\ tres = RepeatLengthMismatch

(***************************************************************************)
(* C10  When none of the names referenced inside a repeated template       *)
(* fragment resolves to a Repeating at the current coordinate (all are     *)
(* scalars, or the fragment references no name at all), instantiation      *)
(* fails: it produces no list of zero, one or more iterations, and the     *)
(* error of the fragment is the 'no repeated bindings' ValueError.         *)
(***************************************************************************)
C10_NoRepeatedBindings ==
    (TCalled /\ IsRepeatingTemplate(tmpl) /\ AllResolve(tmpl) /\ RepeatingAt(tmpl) = {}) =>
        /\ tres.kind # "ok"
        /\ FixedItems(tmpl).kind = "ok" => tres = NoRepeatedBindings

\* a fragment of scalars only, behind a fixed item
C10_Witness ==
    /\ tmpl = TRep2(Lit(PyStr("foo")), Insert("x"))
    /\ "x" \in DOMAIN args /\ args["x"] = PyInt(0)
    /\ tres = NoRepeatedBindings

(***************************************************************************)
(* C11  insert(name) at coordinate c resolves the binding by descending    *)
(* one Repeating layer per coordinate index, outermost index first, and    *)
(* stops when the coordinate is exhausted or a value that is not Repeating *)
(* is reached; if the value reached is still a Repeating, instantiation    *)
(* fails with the 'still repeating at this level' error, so no insertion   *)
(* places a Repeating wrapper into the output.                             *)
(***************************************************************************)
\* one step of the descent: the element of a Repeating at an index
Layer(value, index) == value.v[index + 1]
\* the indices of c lead to elements that exist
InRange(value, c) ==
    \/ c = <<>>
    \/ value.t # "rep"
    \/ /\ c[1] < Len(value.v)
       /\ \/ Len(c) = 1
          \/ Layer(value, c[1]).t # "rep"
          \/ c[2] < Len(Layer(value, c[1]).v)
\* the value reached from value along a coordinate of at most two indices
Reached(value, c) ==
    IF c = <<>> \/ value.t # "rep" THEN value
    ELSE IF Len(c) = 1 \/ Layer(value, c[1]).t # "rep" THEN Layer(value, c[1])
    ELSE Layer(Layer(value, c[1]), c[2])

RECURSIVE HasRepeating(_)
HasRepeating(value) ==
    CASE value.t = "rep" -> TRUE
      [] value.t = "list" -> \E i \in 1..Len(value.v) : HasRepeating(value.v[i])
      [] value.t = "dict" -> \E key \in DOMAIN value.v : HasRepeating(value.v[key])
      [] OTHER -> FALSE

C11_InsertDescends ==
    /\ (TCalled /\ tmpl.k = "insert" /\ tmpl.name \in DOMAIN args
               /\ InRange(args[tmpl.name], coord)) =>
          IF Reached(args[tmpl.name], coord).t = "rep"
          THEN tres = StillRepeating
          ELSE tres = TOk(Reached(args[tmpl.name], coord))
    /\ (TCalled /\ tres.kind = "ok") => ~HasRepeating(tres.v)

\* two layers down, where the order of the indices decides the element
C11_Witness ==
    /\ tmpl = Insert("z")
    /\ "z" \in DOMAIN args /\ args["z"] = Nest(2)
    /\ coord = <<1, 0>>
    /\ tres = TOk(I1)

(***************************************************************************)
(* C12  Flatten: for every bindings value, a list template ending in two   *)
(* repetition markers [items..., ..., ...] produces exactly the            *)
(* concatenation of the sub-lists produced by the one-level-deeper         *)
(* template [[items..., ...], ...], and the same error when that template  *)
(* errors; this composes for three or more consecutive markers, each extra *)
(* marker removing one more level of nesting.                              *)
(***************************************************************************)
IsFlatteningTemplate(t) ==
    /\ t.k = "list"
    /\ Len(t.items) >= 2
    /\ t.items[Len(t.items)].k = "ellipsis"
    /\ t.items[Len(t.items) - 1].k = "ellipsis"
\* [[items..., ...], ...] for [items..., ..., ...]
Deeper(t) == TList(<<TList(SubSeq(t.items, 1, Len(t.items) - 1)), ELLIPSIS>>)

\* the concatenation of a sequence of lists, built from its end
RECURSIVE Concat(_)
Concat(lists) ==
    IF lists = <<>> THEN <<>>
    ELSE Concat(SubSeq(lists, 1, Len(lists) - 1)) \o lists[Len(lists)].v

C12_Flatten ==
    /\ (TCalled /\ IsFlatteningTemplate(tmpl)) =>
          LET deep == Instantiate(Deeper(tmpl), args, coord)
          IN  IF deep.kind = "ok"
              THEN tres = TOk(PyList(Concat(deep.v.v)))
              ELSE tres = deep
    /\ (TCalled /\ tmpl = TList(<<XYZ, ELLIPSIS, ELLIPSIS>>) /\ coord = <<>>
               /\ args = ("x" :> PyInt(0) @@ "y" :> Ramp(2) @@ "z" :> Nest(2))) =>
          tres = TOk(L3(L3(PyInt(0), I1, I1), L3(PyInt(0), I2, I1), L3(PyInt(0), I2, I2)))
    /\ (TCalled /\ tmpl = TList(<<Insert("z"), ELLIPSIS, ELLIPSIS, ELLIPSIS>>) /\ coord = <<>>
               /\ "z" \in DOMAIN args /\ args["z"] = Cube) =>
          tres = TOk(L4(I1, I1, I1, I2))

\* three markers over a binding of three layers
C12_Witness ==
    /\ tmpl = TList(<<Insert("z"), ELLIPSIS, ELLIPSIS, ELLIPSIS>>)
    /\ coord = <<>>
    /\ "z" \in DOMAIN args /\ args["z"] = Cube
    /\ tres = TOk(L4(I1, I1, I1, I2))

(***************************************************************************)
(* The round trip: a matcher and the template that mirrors its pattern are *)
(* built together; the bindings of a match are handed to the template.     *)
(***************************************************************************)
\* the template that mirrors a pattern: insert(n) for bind(n), the same
\* literals, lists, mappings and repetition markers
RECURSIVE Mirror(_)
Mirror(p) ==
    CASE p.k = "bind" -> Insert(p.name)
      [] p.k = "list" -> TList([i \in 1..Len(p.items) |-> Mirror(p.items[i])])
      [] p.k = "dict" ->
            TDict([i \in 1..Len(p.keys) |-> Lit(PyStr(p.keys[i].key))],
                  [i \in 1..Len(p.pats) |-> Mirror(p.pats[i])])
      [] OTHER -> p

\* the patterns made of bind(n), literals, lists, mappings and repetition
\* markers only, each repeated element holding a capture
RECURSIVE Mirrorable(_)
Mirrorable(p) ==
    CASE p.k = "lit" -> TRUE
      [] p.k = "bind" -> p.dtype = "none"
      [] p.k = "list" ->
            /\ ~BuildFails(p)
            /\ NumEllipsis(p.items) <= 1
            /\ p.items # <<ELLIPSIS>>
            /\ \A i \in 1..Len(p.items) :
                  p.items[i].k = "ellipsis" \/ Mirrorable(p.items[i])
            /\ NumEllipsis(p.items) = 1 => CaptureNames(p.items[Len(p.items) - 1]) # {}
      [] p.k = "dict" ->
            /\ \A i \in 1..Len(p.keys) : ~p.keys[i].isDefault
            /\ \A i \in 1..Len(p.pats) : Mirrorable(p.pats[i])
      [] OTHER -> FALSE

MirrorablePatterns == {p \in PatternSet : Mirrorable(p)}

BuildPair(p) ==
    /\ pat' = p
    /\ built' = IF BuildFails(p) THEN "ValueError" ELSE "ok"
    /\ tmpl' = Mirror(p)
    /\ tbuilt' = IF TemplateBuildFails(Mirror(p)) THEN "ValueError" ELSE "ok"
    /\ mdata' = NoData
    /\ mres' = NotCalled
    /\ args' = <<>>
    /\ tres' = TNotCalled
    /\ UNCHANGED <<sliceHashable, order, heap, procs, first, coord>>

MatchAndInstantiate(d) ==
    /\ built = "ok"
    /\ tbuilt = "ok"
    /\ mdata' = d
    /\ mres' = Match(pat, d)
    /\ args' = IF Match(pat, d).kind = "ok" THEN Match(pat, d).b ELSE <<>>
    /\ tres' = IF Match(pat, d).kind = "ok"
               THEN Instantiate(tmpl, Match(pat, d).b, <<>>)
               ELSE TNotCalled
    /\ UNCHANGED <<sliceHashable, order, heap, procs, first, pat, built, tmpl, tbuilt, coord>>

RoundTripNext ==
    \/ \E p \in MirrorablePatterns : BuildPair(p)
    \/ \E d \in DataSet : MatchAndInstantiate(d)

RoundTripSpec == Init /\ [][RoundTripNext]_vars

(***************************************************************************)
(* C13  Round trip: for any data D matched successfully by pattern P into  *)
(* bindings B, the template that mirrors P's capture structure,            *)
(* instantiated with B, returns a value equal to D; this includes patterns *)
(* with a fixed prefix before the repeated element at any nesting depth    *)
(* and repetitions of zero elements.  (D holds no mapping key that P does  *)
(* not declare.)                                                           *)
(***************************************************************************)
\* the mappings of the data have the keys of their patterns and no other
RECURSIVE Closed(_, _)
Closed(p, d) ==
    CASE p.k = "list" ->
            \A i \in 1..Len(d.v) :
                Closed(IF i < Len(p.items) THEN p.items[i]
                       ELSE IF p.items[Len(p.items)].k = "ellipsis"
                            THEN p.items[Len(p.items) - 1]
                            ELSE p.items[i],
                       d.v[i])
      [] p.k = "dict" ->
            /\ DOMAIN d.v = {p.keys[i].key : i \in 1..Len(p.keys)}
            /\ \A i \in 1..Len(p.keys) : Closed(p.pats[i], d.v[p.keys[i].key])
      [] OTHER -> TRUE

C13_RoundTrip ==
    (Matched /\ tmpl = Mirror(pat) /\ Closed(pat, mdata)) => tres = TOk(mdata)

(***************************************************************************)
(* Repeated invocation: one compiled matcher is invoked many times; the    *)
(* caller keeps the data and the outcome of one invocation.                *)
(***************************************************************************)
MaxLater == 2      \* invocations counted after the kept one

ProbeData ==
    { I1, PyStr("s"), PyList(<<>>), L1(I1), L1(I2), L2(I1, I2), L3(I1, I2, I3),
      DX(I1), DXY(I1, L2(I1, I3)),
      L2(L2(I1, I2), L1(I3)), L2(L1(I1), L2(I2, I3)),
      L3(DX(I1), EmptyDict, DX(I2)), L2(DXY(I1, L1(I3)), DXY(I2, PyList(<<>>))) }

\* matcher = build_matcher(p)
Compile(p) ==
    /\ pat' = p
    /\ built' = IF BuildFails(p) THEN "ValueError" ELSE "ok"
    /\ mdata' = NoData
    /\ mres' = NotCalled
    /\ first' = NoFirst
    /\ UNCHANGED <<sliceHashable, order, heap, procs, tmpl, tbuilt, args, coord, tres>>

\* kept = matcher(d)
InvokeAndKeep(d) ==
    /\ built = "ok"
    /\ first = NoFirst
    /\ mdata' = d
    /\ mres' = Match(pat, d)
    /\ first' = [data |-> d, res |-> Match(pat, d), later |-> 0]
    /\ UNCHANGED <<sliceHashable, order, heap, procs, pat, built, tmpl, tbuilt, args, coord, tres>>

\* matcher(d), counted when an outcome is kept
Invoke(d) ==
    /\ built = "ok"
    /\ mdata' = d
    /\ mres' = Match(pat, d)
    /\ first' = IF first = NoFirst \/ first.later = MaxLater THEN first
                ELSE [first EXCEPT !.later = @ + 1]
    /\ UNCHANGED <<sliceHashable, order, heap, procs, pat, built, tmpl, tbuilt, args, coord, tres>>

RepeatNext ==
    \/ \E p \in PatternSet : Compile(p)
    \/ \E d \in ProbeData : InvokeAndKeep(d)
    \/ \E d \in ProbeData : Invoke(d)

RepeatSpec == Init /\ [][RepeatNext]_vars

MarkerNotLast(items) ==
    \E i, j \in 1..Len(items) : i < j /\ items[i].k = "ellipsis" /\ items[j].k # "ellipsis"

RECURSIVE IllegalPlacement(_)
IllegalPlacement(s) ==
    CASE s.k = "list" ->
            \/ MarkerNotLast(s.items)
            \/ \E i \in 1..Len(s.items) : IllegalPlacement(s.items[i])
      [] s.k = "dict" /\ "pats" \in DOMAIN s ->
            \E i \in 1..Len(s.pats) : IllegalPlacement(s.pats[i])
      [] s.k = "dict" /\ "vals" \in DOMAIN s ->
            \E i \in 1..Len(s.vals) :
                IllegalPlacement(s.keys[i]) \/ IllegalPlacement(s.vals[i])
      [] s.k \in {"bind_as", "skip_mismatch", "skip_missing_keys"} -> IllegalPlacement(s.p)
      [] OTHER -> FALSE

C15_MarkerPlacement ==
    /\ (built # "none" /\ IllegalPlacement(pat)) => built = "ValueError"
    /\ (tbuilt # "none" /\ IllegalPlacement(tmpl)) => tbuilt = "ValueError"
    /\ Called => built = "ok" /\ ~IllegalPlacement(pat)
    /\ TCalled => tbuilt = "ok" /\ ~IllegalPlacement(tmpl)

(***************************************************************************)
(* C16  build_template rejects at build time, with the ellipsis error, a   *)
(* list template whose repetition marker has no template element before it *)
(* to repeat: build_template([...]) raises ValueError instead of returning *)
(* an instantiator, and so does a marker in first position as in [..., 0]. *)
(***************************************************************************)
MarkerFirst(t) == t.k = "list" /\ t.items # <<>> /\ t.items[1].k = "ellipsis"

C16_NothingToRepeat ==
    (tbuilt # "none" /\ MarkerFirst(tmpl)) => tbuilt = "ValueError"

(***************************************************************************)
(* C17  A mapping pattern matches a data mapping exactly when every        *)
(* declared key is present in the data or carries a default (and the value *)
(* patterns match): for a present key the data's value is matched against  *)
(* the key's value pattern, for an absent default-key the default value is *)
(* matched against it instead ({default('x', 42): bind('y')} against {}    *)
(* yields {y: 42}), an absent key without default fails with KeyMismatch,  *)
(* and keys of the data that the pattern does not declare never cause a    *)
(* rejection and never appear in the bindings.                             *)
(***************************************************************************)
DeclaredKeys(p) == {p.keys[i].key : i \in 1..Len(p.keys)}
Available(p, d, i) == p.keys[i].key \in DOMAIN d.v \/ p.keys[i].isDefault
\* the value the i-th value pattern is matched against
ValueFor(p, d, i) ==
    IF p.keys[i].key \in DOMAIN d.v THEN d.v[p.keys[i].key] ELSE p.keys[i].default_value
SubMatch(p, d, i) == Match(p.pats[i], ValueFor(p, d, i))
AllAvailable(p, d) == \A i \in 1..Len(p.keys) : Available(p, d, i)
DisjointNames(p) ==
    \A i, j \in 1..Len(p.pats) :
        i # j => CaptureNames(p.pats[i]) \cap CaptureNames(p.pats[j]) = {}
\* the data without the keys the pattern does not declare
Declared(p, d) == PyDict([key \in DOMAIN d.v \cap DeclaredKeys(p) |-> d.v[key]])

C17_MappingPattern ==
    (Called /\ pat.k = "dict" /\ mdata.t = "dict" /\ DisjointNames(pat)) =>
        /\ Matched <=> /\ AllAvailable(pat, mdata)
                       /\ \A i \in 1..Len(pat.keys) : SubMatch(pat, mdata, i).kind = "ok"
        /\ Matched =>
              /\ DOMAIN mres.b = UNION {DOMAIN SubMatch(pat, mdata, i).b : i \in 1..Len(pat.keys)}
              /\ \A i \in 1..Len(pat.keys) : \A n \in DOMAIN SubMatch(pat, mdata, i).b :
                    mres.b[n] = SubMatch(pat, mdata, i).b[n]
        /\ \A i \in 1..Len(pat.keys) :
              (/\ ~Available(pat, mdata, i)
               /\ \A j \in 1..(i - 1) :
                     Available(pat, mdata, j) /\ SubMatch(pat, mdata, j).kind = "ok") =>
                  mres = KeyMismatch(pat.keys[i].key)
        /\ mres = Match(pat, Declared(pat, mdata))
        /\ (pat = PDict(<<Default("x", PyInt(42))>>, <<bind("y")>>) /\ mdata = EmptyDict) =>
              mres = Ok("y" :> PyInt(42))

\* a key that declares a default and is present in the data
C17_Witness ==
    /\ pat = PDict(<<Default("x", PyInt(42)), Key("y")>>, <<bind("x"), Lit(I1)>>)
    /\ mdata = PyDict("x" :> I2 @@ "y" :> I1)
    /\ mres = Ok("x" :> I2)

(***************************************************************************)
(* C18  Every container pattern rejects data of the wrong container type   *)
(* with TypeMismatch, for every kind of non-matching data (string, number, *)
(* mapping, list): a fixed-list pattern, the any-list pattern [...] and a  *)
(* repeating-list pattern given non-list data, and a mapping pattern       *)
(* (including {}) given non-mapping data, fail with TypeMismatch; they     *)
(* never succeed and never fail with a different error.                    *)
(***************************************************************************)
C18_WrongContainer ==
    /\ (Called /\ pat.k = "list" /\ mdata.t # "list") => mres = Raise("TypeMismatch")
    /\ (Called /\ pat.k = "dict" /\ mdata.t # "dict") => mres = Raise("TypeMismatch")

(***************************************************************************)
(* C19  bind_as(name, sub, default?) applied to data: when sub matches,    *)
(* the result is sub's bindings together with {name: data}, the whole,     *)
(* unconverted datum; when sub fails with a Mismatch and a default was     *)
(* supplied, the match succeeds with exactly {name: default}; when sub     *)
(* fails and no default was supplied, sub's Mismatch propagates unchanged. *)
(***************************************************************************)
C19_BindAs ==
    (Called /\ pat.k = "bind_as") =>
        LET sub == Match(pat.p, mdata)
        IN  /\ sub.kind = "ok" =>
                  /\ Matched
                  /\ DOMAIN mres.b = DOMAIN sub.b \cup {pat.name}
                  /\ mres.b[pat.name] = mdata
                  /\ \A n \in DOMAIN sub.b \ {pat.name} : mres.b[n] = sub.b[n]
            /\ (IsMismatch(sub) /\ pat.hasDefault) => mres = Ok(pat.name :> pat.dflt)
            /\ (sub.kind # "ok" /\ ~pat.hasDefault) => mres = sub

\* the sub-pattern rejects the first element, the default is bound
C19_Witness ==
    /\ pat = BindAs("z", Rep2(Lit(I1), bind("x")), TRUE, PyStr("D"))
    /\ mdata = L3(I2, I1, I1)
    /\ mres = Ok("z" :> PyStr("D"))

(***************************************************************************)
(* C20  A type-cast capture bind(name, T) binds the converted value        *)
(* T(data), not the original datum, and a type-check pattern T binds       *)
(* nothing; in both, any failure raised by the conversion is reported as   *)
(* CastMismatch (a Mismatch, hence converted to Skip by skip_mismatch),     *)
(* never as the conversion's own exception.                                *)
(***************************************************************************)
IsCast(p) == (p.k = "bind" /\ p.dtype = "int") \/ p.k = "type"

C20_Cast ==
    /\ (Called /\ pat.k = "bind" /\ pat.dtype = "int") =>
          /\ \/ mres = Raise("CastMismatch")
             \/ /\ Matched
                /\ DOMAIN mres.b = {pat.name}
                /\ mres.b[pat.name].t = "int"
                /\ mdata.t = "int" => mres.b[pat.name] = mdata
          /\ mdata = PyStr("42") => mres = Ok(pat.name :> PyInt(42))
          /\ mdata.t = "int" => Matched
    /\ (Called /\ pat.k = "type") =>
          /\ mres \in {Ok(<<>>), Raise("CastMismatch")}
          /\ mdata \in {PyStr("42"), I1} => mres = Ok(<<>>)
    /\ (Called /\ IsCast(pat) /\ (mdata.t \in {"list", "dict"} \/ mdata = PyStr("s"))) =>
          mres = Raise("CastMismatch")
    /\ (Called /\ pat.k = "skip_mismatch" /\ IsCast(pat.p)) =>
          mres = IF Match(pat.p, mdata).kind = "ok" THEN Match(pat.p, mdata) ELSE Raise("Skip")

\* the string "42" is bound as the number 42
C20_Witness ==
    /\ pat = Bind("x", "int")
    /\ mdata = PyStr("42")
    /\ mres = Ok("x" :> PyInt(42))

(***************************************************************************)
(* C21  The static analysis of bound names reports, for every capture name *)
(* of a pattern, the number of repeating-list patterns enclosing its       *)
(* capture site: a name in the fixed prefix of a repeating list gets the   *)
(* depth of the list itself, only a name in the repeated element gets one  *)
(* more ([bind('x'), bind('y'), ...] gives {x: 0, y: 1}), and the depth is *)
(* carried unchanged through bind_as, the skip wrappers and mapping        *)
(* values; it is the Repeating depth a successful match produces.          *)
(***************************************************************************)
BoundNames == find_bindings(pat, 0)

C21_BoundNames ==
    /\ built = "ok" =>
          /\ DOMAIN BoundNames = CaptureNames(pat)
          /\ \A n \in DOMAIN BoundNames : <<n, BoundNames[n]>> \in SiteDepths(pat, 0)
    /\ (built = "ok" /\ pat = Rep2(bind("y"), bind("x"))) =>
          BoundNames = ("y" :> 0 @@ "x" :> 1)
    /\ Matched =>
          \A n \in DOMAIN mres.b \cap DOMAIN BoundNames : ExactDepth(mres.b[n], BoundNames[n])

(***************************************************************************)
(* Invocations in progress.  A call is a sequence of steps on the objects  *)
(* it creates: the bindings dict and the Repeating accumulators of each    *)
(* RepeatingListMatcher call, the lists and dicts an instantiator builds.  *)
(* Data, patterns and templates are values that no step writes; between   *)
(* two steps of one invocation the other invocation may take steps.        *)
(***************************************************************************)
\* an object this invocation creates, by the number of its creation
Local(k) == [t |-> "local", v |-> k]
\* bindings[name] of the dict that is object k, read when it is used
DictVal(k, name) == [t |-> "dictval", v |-> <<k, name>>]
\* a reference held in an object
Pointer(g) == [t |-> "ref", v |-> g]
Lost == [t |-> "lost", v |-> 0]

\* one step; c is the object the step works on
Step(op, c, name, x, b) == [op |-> op, c |-> c, name |-> name, x |-> x, b |-> b]

\* the outcome of a sub-matcher call, the steps the call has taken, the number
\* of the next object, and the returned dict when it is a dict that an
\* enclosing call goes on to update (d = 0: a dict of no interest to others)
Traced(r, ops, n, d) ==
    [kind |-> r.kind, key |-> r.key, b |-> r.b, ops |-> ops, n |-> n, d |-> d]

NamesInOrder(names) == SelectSeq(DefaultOrder, LAMBDA k : k \in names)

\* for name in bound_optional_names: assert name not in bindings; bindings[name] = Repeating([])
SeedSteps(c, names, n) ==
    [i \in 1..Len(names) |-> Step("seed", c, names[i], Local(n + i - 1), <<>>)]

\* for k, v in bnd.items(): bindings[k].values.append(v)
AppendSteps(c, bnd) ==
    LET ks == NamesInOrder(DOMAIN bnd)
    IN  [i \in 1..Len(ks) |-> Step("append", c, ks[i], bnd[ks[i]], <<>>)]

RECURSIVE MatchSteps(_, _, _)
RECURSIVE ElementsSteps(_, _, _, _, _, _)
RECURSIVE RepeatLoopSteps(_, _, _, _, _, _, _)
RECURSIVE DictLoopSteps(_, _, _, _, _, _)

ElementsSteps(ps, ds, i, bindings, ops, n) ==
    IF i > Len(ps) \/ i > Len(ds) THEN Traced(Ok(bindings), ops, n, 0)
    ELSE LET r == MatchSteps(ps[i], ds[i], n)
         IN  IF r.kind # "ok" THEN Traced(r, ops \o r.ops, r.n, 0)
             ELSE ElementsSteps(ps, ds, i + 1, Merge(bindings, r.b), ops \o r.ops, r.n)

FixdListSteps(ps, data, n) ==
    IF data.t # "list" THEN Traced(Raise("TypeMismatch"), <<>>, n, 0)
    ELSE IF Len(data.v) # Len(ps) THEN Traced(Raise("LengthMismatch"), <<>>, n, 0)
    ELSE ElementsSteps(ps, data.v, 1, <<>>, <<>>, n)

\* the loop of RepeatingListMatcher.__call__ on the bindings dict c
RepeatLoopSteps(rep, ds, i, c, keys, ops, n) ==
    IF i > Len(ds) THEN Traced(Ok([k \in keys |-> DictVal(c, k)]), ops, n, c)
    ELSE LET r == MatchSteps(rep, ds[i], n)
         IN  IF r.kind = "Skip" THEN RepeatLoopSteps(rep, ds, i + 1, c, keys, ops \o r.ops, r.n)
             ELSE IF r.kind # "ok" THEN Traced(r, ops \o r.ops, r.n, 0)
             ELSE RepeatLoopSteps(rep, ds, i + 1, c, keys,
                                  ops \o r.ops \o AppendSteps(c, r.b), r.n)

\* RepeatingListMatcher.__call__: the dict the prefix matcher returns is the
\* bindings dict, object c; one new Repeating per name; then the loop
RepeatingListSteps(patterns, data, n) ==
    LET repeating == patterns[Len(patterns)]
        prefix == SubSeq(patterns, 1, Len(patterns) - 1)
        n_prefix == Len(prefix)
        names == NamesInOrder(DOMAIN find_bindings(repeating, 0))
    IN  IF data.t # "list" THEN Traced(SliceNonList(data), <<>>, n, 0)
        ELSE LET pre == FixdListSteps(prefix, PyList(Slice(data.v, 0, n_prefix)), n)
                 c == pre.n
             IN  IF pre.kind # "ok" THEN pre
                 ELSE RepeatLoopSteps(repeating, Slice(data.v, n_prefix, Len(data.v)), 1, c,
                                      DOMAIN pre.b \cup DOMAIN find_bindings(repeating, 0),
                                      pre.ops \o <<Step("newdict", c, "", Lost, pre.b)>>
                                              \o SeedSteps(c, names, c + 1),
                                      c + 1 + Len(names))

DictLoopSteps(p, mapping, i, bindings, ops, n) ==
    IF i > Len(p.keys) THEN Traced(Ok(bindings), ops, n, 0)
    ELSE LET d == lookup(mapping, p.keys[i])
         IN  IF d.kind # "ok" THEN Traced(d, ops, n, 0)
             ELSE LET r == MatchSteps(p.pats[i], d.b["d"], n)
                  IN  IF r.kind # "ok" THEN Traced(r, ops \o r.ops, r.n, 0)
                      ELSE DictLoopSteps(p, mapping, i + 1, Merge(bindings, r.b),
                                         ops \o r.ops, r.n)

DictSteps(p, data, n) ==
    IF data.t # "dict" THEN Traced(Raise("TypeMismatch"), <<>>, n, 0)
    ELSE DictLoopSteps(p, data.v, 1, <<>>, <<>>, n)

\* BindingMatcher.__call__: bindings |= {self.name: data} updates the dict
\* the inner matcher has returned
BindingSteps(p, data, n) ==
    LET r == MatchSteps(p.p, data, n)
    IN  IF r.kind = "ok"
        THEN IF r.d = 0 THEN Traced(Ok(Merge(r.b, (p.name :> data))), r.ops, r.n, 0)
             ELSE Traced(Ok(Merge(r.b, (p.name :> DictVal(r.d, p.name)))),
                         Append(r.ops, Step("set", r.d, p.name, data, <<>>)), r.n, r.d)
        ELSE IF IsMismatch(r) /\ p.hasDefault
             THEN Traced(Ok(p.name :> p.dflt), r.ops, r.n, 0)
        ELSE r

ErrorHandlingSteps(p, data, n) ==
    LET r == MatchSteps(p.p, data, n)
    IN  IF r.kind = "ok" THEN r
        ELSE IF SkipPredicate(p, r) THEN Traced(Raise("Skip"), r.ops, r.n, 0)
        ELSE r

ListSteps(p, data, n) ==
    LET m == Len(p.items)
    IN  IF m = 1 /\ p.items[1].k = "ellipsis" THEN Traced(InstanceMatcher(data), <<>>, n, 0)
        ELSE IF m >= 1 /\ p.items[m].k = "ellipsis"
             THEN RepeatingListSteps(SubSeq(p.items, 1, m - 1), data, n)
        ELSE FixdListSteps(p.items, data, n)

\* the steps of build_matcher(p)(data), dispatched as Match is
MatchSteps(p, data, n) ==
    CASE p.k = "bind_as" -> BindingSteps(p, data, n)
      [] p.k \in {"skip_mismatch", "skip_missing_keys"} -> ErrorHandlingSteps(p, data, n)
      [] p.k = "list" -> ListSteps(p, data, n)
      [] p.k = "dict" -> DictSteps(p, data, n)
      [] OTHER -> Traced(Match(p, data), <<>>, n, 0)

\* the outcome of a sub-instantiator call with the steps the call has taken
TTraced(r, ops, n) == [kind |-> r.kind, msg |-> r.msg, v |-> r.v, ops |-> ops, n |-> n]

RECURSIVE TemplateSteps(_, _, _, _)
RECURSIVE ItemsSteps(_, _, _, _, _, _, _)
RECURSIVE RangeSteps(_, _, _, _, _, _, _, _)
RECURSIVE DictTemplateSteps(_, _, _, _, _, _, _)

\* [x(bindings, nesting_level) for x in fixed_instantiators], the list being object c
ItemsSteps(items, i, bindings, nesting_level, c, ops, n) ==
    IF i > Len(items) THEN TTraced(TOk(Local(c)), ops, n)
    ELSE LET r == TemplateSteps(items[i], bindings, nesting_level, n)
         IN  IF r.kind # "ok" THEN TTraced(r, ops \o r.ops, r.n)
             ELSE ItemsSteps(items, i + 1, bindings, nesting_level, c,
                             ops \o r.ops \o <<Step("push", c, "", r.v, <<>>)>>, r.n)

\* [rep_instantiator(bindings, nesting_level + (i,)) for i in range(rep_len)]
RangeSteps(rep, i, rep_len, bindings, nesting_level, c, ops, n) ==
    IF i >= rep_len THEN TTraced(TOk(Local(c)), ops, n)
    ELSE LET r == TemplateSteps(rep, bindings, Append(nesting_level, i), n)
         IN  IF r.kind # "ok" THEN TTraced(r, ops \o r.ops, r.n)
             ELSE RangeSteps(rep, i + 1, rep_len, bindings, nesting_level, c,
                             ops \o r.ops \o <<Step("push", c, "", r.v, <<>>)>>, r.n)

FixedListSteps(items, bindings, nesting_level, n) ==
    ItemsSteps(items, 1, bindings, nesting_level, n,
               <<Step("newlist", n, "", Lost, <<>>)>>, n + 1)

\* instantiate_repeating: fixed_part, rep_len, variable_part, fixed_part + variable_part
RepeatingSteps(items, rep, bindings, nesting_level, n) ==
    LET fixed_part == FixedListSteps(items, bindings, FixedPartLevel(nesting_level), n)
    IN  IF fixed_part.kind # "ok" THEN fixed_part
        ELSE LET rep_len == common_repetition_length(bindings, nesting_level,
                                                     find_insertions(rep))
                 c == fixed_part.n
             IN  IF rep_len.kind # "ok" THEN TTraced(rep_len, fixed_part.ops, fixed_part.n)
                 ELSE LET variable_part ==
                              RangeSteps(rep, 0, rep_len.v.v, bindings, nesting_level, c,
                                         Append(fixed_part.ops,
                                                Step("newlist", c, "", Lost, <<>>)),
                                         c + 1)
                      IN  IF variable_part.kind # "ok" THEN variable_part
                          ELSE TTraced(TOk(Local(variable_part.n)),
                                       Append(variable_part.ops,
                                              Step("concat", variable_part.n, "", Lost,
                                                   <<fixed_part.v, variable_part.v>>)),
                                       variable_part.n + 1)

\* flatten(deep_template(bindings, nesting_level)): result = []; result.extend(s) for each s
FlattenedSteps(items, bindings, nesting_level, n) ==
    LET deep_template == TList(<<TList(Append(items, ELLIPSIS)), ELLIPSIS>>)
        deep == TemplateSteps(deep_template, bindings, nesting_level, n)
        count == Len(Instantiate(deep_template, bindings, nesting_level).v.v)
        c == deep.n
    IN  IF deep.kind # "ok" THEN deep
        ELSE TTraced(TOk(Local(c)),
                     deep.ops \o <<Step("newlist", c, "", Lost, <<>>)>>
                              \o [i \in 1..count |-> Step("extend", c, "", deep.v, i)],
                     c + 1)

ListTemplateSteps(template, bindings, nesting_level, n) ==
    LET items == template.items
        m == Len(items)
    IN  IF m >= 2 /\ items[m].k = "ellipsis" /\ items[m - 1].k = "ellipsis"
        THEN FlattenedSteps(SubSeq(items, 1, m - 2), bindings, nesting_level, n)
        ELSE IF m >= 2 /\ items[m].k = "ellipsis"
        THEN RepeatingSteps(SubSeq(items, 1, m - 2), items[m - 1], bindings, nesting_level, n)
        ELSE FixedListSteps(items, bindings, nesting_level, n)

\* the dict comprehension of build_dict_template.instantiate, the dict being object c
DictTemplateSteps(template, i, bindings, nesting_level, c, ops, n) ==
    IF i > Len(template.keys) THEN TTraced(TOk(Local(c)), ops, n)
    ELSE LET key == TemplateSteps(template.keys[i], bindings, nesting_level, n)
         IN  IF key.kind # "ok" THEN TTraced(key, ops \o key.ops, key.n)
             ELSE LET val == TemplateSteps(template.vals[i], bindings, nesting_level, key.n)
                  IN  IF val.kind # "ok" THEN TTraced(val, ops \o key.ops \o val.ops, val.n)
                      ELSE IF key.v.t \in {"list", "dict", "rep", "local"}
                           THEN TTraced(TRaise("TypeError", "unhashable"),
                                        ops \o key.ops \o val.ops, val.n)
                      ELSE DictTemplateSteps(template, i + 1, bindings, nesting_level, c,
                                             ops \o key.ops \o val.ops \o
                                                 <<Step("set", c, DictKey(key.v), val.v, <<>>)>>,
                                             val.n)

\* the steps of build_template(spec)(bindings, nesting_level), dispatched as Instantiate is
TemplateSteps(spec, bindings, nesting_level, n) ==
    CASE spec.k = "list" -> ListTemplateSteps(spec, bindings, nesting_level, n)
      [] spec.k = "dict" ->
            DictTemplateSteps(spec, 1, bindings, nesting_level, n,
                              <<Step("newdict", n, "", Lost, <<>>)>>, n + 1)
      [] OTHER -> TTraced(Instantiate(spec, bindings, nesting_level), <<>>, n)

\* the accumulators kept with the compiled matcher, one for all invocations
Object_shared(t, k) == <<0, k>>

\* Repeating([]), {} and [] evaluated in a call: a new object of that invocation
Object(t, k) == <<t, k>>

Has(h, g, type) == g \in DOMAIN h /\ h[g].t = type
\* a new object: by whom it was created, and by whom it has been read or written
Put(h, g, type, value, t) ==
    (g :> [t |-> type, v |-> value, owner |-> t, by |-> {t}]) @@ h

\* the value of an operand when a step of invocation t uses it
Deref(x, t, h) ==
    CASE x.t = "local" -> Pointer(Object(t, x.v))
      [] x.t = "dictval" ->
            LET g == Object(t, x.v[1])
            IN  IF Has(h, g, "dict") /\ x.v[2] \in DOMAIN h[g].v THEN h[g].v[x.v[2]] ELSE Lost
      [] OTHER -> x

\* the objects a step of invocation t reads or writes
Touched(o, t, h) ==
    LET g == Object(t, o.c)
        operands == {o.x} \cup (IF o.op = "extend" THEN {}
                                ELSE {o.b[k] : k \in DOMAIN o.b})
    IN  {g}
        \cup {Object(t, x.v) : x \in {y \in operands : y.t = "local"}}
        \cup {Object(t, x.v[1]) : x \in {y \in operands : y.t = "dictval"}}
        \cup (IF o.op = "append" /\ Has(h, g, "dict") /\ o.name \in DOMAIN h[g].v
                 /\ h[g].v[o.name].t = "ref"
              THEN {h[g].v[o.name].v} ELSE {})

Done(h) == [h |-> h, err |-> ""]
Failed(h, err) == [h |-> h, err |-> err]

\* one step of invocation t on the heap h
Exec(o, t, h) ==
    LET g == Object(t, o.c)
    IN  CASE o.op = "newdict" ->
                Done(Put(h, g, "dict", [k \in DOMAIN o.b |-> Deref(o.b[k], t, h)], t))
          [] o.op = "newlist" -> Done(Put(h, g, "list", <<>>, t))
          [] o.op = "seed" ->
                IF ~Has(h, g, "dict") THEN Failed(h, "TypeError")
                ELSE IF o.name \in DOMAIN h[g].v THEN Failed(h, "AssertionError")
                ELSE LET r == Object(t, o.x.v)
                         h1 == Put(h, r, "rep", <<>>, t)
                     IN  Done([h1 EXCEPT ![g].v = Merge(@, (o.name :> Pointer(r)))])
          [] o.op = "append" ->
                IF ~Has(h, g, "dict") THEN Failed(h, "TypeError")
                ELSE IF o.name \notin DOMAIN h[g].v THEN Failed(h, "KeyError")
                ELSE LET acc == h[g].v[o.name]
                     IN  IF acc.t # "ref" THEN Failed(h, "AttributeError")
                         ELSE IF ~Has(h, acc.v, "rep") THEN Failed(h, "AttributeError")
                         ELSE Done([h EXCEPT ![acc.v].v = Append(@, Deref(o.x, t, h))])
          [] o.op = "set" ->
                IF ~Has(h, g, "dict") THEN Failed(h, "TypeError")
                ELSE Done([h EXCEPT ![g].v = Merge(@, (o.name :> Deref(o.x, t, h)))])
          [] o.op = "push" ->
                IF ~Has(h, g, "list") THEN Failed(h, "TypeError")
                ELSE Done([h EXCEPT ![g].v = Append(@, Deref(o.x, t, h))])
          [] o.op = "concat" ->
                LET l == Deref(o.b[1], t, h)
                    r == Deref(o.b[2], t, h)
                IN  IF ~Has(h, l.v, "list") \/ ~Has(h, r.v, "list") THEN Failed(h, "TypeError")
                    ELSE Done(Put(h, g, "list", h[l.v].v \o h[r.v].v, t))
          [] o.op = "extend" ->
                LET outer == Deref(o.x, t, h)
                IN  IF ~Has(h, g, "list") \/ ~Has(h, outer.v, "list")
                    THEN Failed(h, "TypeError")
                    ELSE IF o.b > Len(h[outer.v].v) THEN Failed(h, "IndexError")
                    ELSE LET s == h[outer.v].v[o.b]
                         IN  IF s.t # "ref" THEN Failed(h, "TypeError")
                             ELSE IF ~Has(h, s.v, "list") THEN Failed(h, "TypeError")
                             ELSE Done([h EXCEPT ![g].v = @ \o h[s.v].v])

\* the value a caller sees through a reference
RECURSIVE Resolve(_, _)
Resolve(x, h) ==
    IF x.t # "ref" THEN x
    ELSE IF x.v \notin DOMAIN h THEN Lost
    ELSE LET cell == h[x.v]
         IN  CASE cell.t = "rep" ->
                     Repeating([i \in 1..Len(cell.v) |-> Resolve(cell.v[i], h)])
               [] cell.t = "list" ->
                     PyList([i \in 1..Len(cell.v) |-> Resolve(cell.v[i], h)])
               [] OTHER -> PyDict([k \in DOMAIN cell.v |-> Resolve(cell.v[k], h)])

ThreadPatterns ==
    { Rep1(bind("x")),
      Rep2(bind("y"), bind("x")),
      Rep1(Rep1(bind("x"))),
      Rep1(SkipOnMismatch(PList(<<Lit(I1), bind("x")>>))),
      Rep1(BindAs("z", Rep1(bind("x")), TRUE, PyInt(0))),
      bind_as("z", Rep1(bind("x"))),
      Rep1(DictXY(bind("x"), Rep1(bind("y")))),
      Rep2(bind("x"), bind("x")) }

ThreadData ==
    { PyList(<<>>), L2(I1, I2), I1,
      L2(L2(I1, I2), L1(I3)),
      L1(L1(I1)),
      L2(DXY(I1, L1(I3)), DXY(I2, PyList(<<>>))) }

ThreadTemplates ==
    { TRep1(Insert("x")),
      TRep2(Insert("y"), Insert("x")),
      TRep1(TRep1(Insert("z"))),
      TList(<<Insert("z"), ELLIPSIS, ELLIPSIS>>),
      TRep1(TDict(<<Insert("y")>>, <<Insert("x")>>)) }

\* the arguments of an instantiator call: bindings and nesting_level
Arguments(bindings, nesting_level) == [args |-> bindings, coord |-> nesting_level]

ThreadArguments ==
    { Arguments("x" :> Ramp(2) @@ "y" :> PyInt(0) @@ "z" :> Nest(2), <<>>),
      Arguments("x" :> Ramp(1) @@ "y" :> Ramp(1) @@ "z" :> Cube, <<>>),
      Arguments("x" :> Ramp(2) @@ "y" :> Ramp(1) @@ "z" :> Nest(1), <<>>),
      Arguments("x" :> Nest(2) @@ "y" :> PyInt(0) @@ "z" :> Cube, <<1>>),
      Arguments("x" :> PyInt(0), <<>>) }

\* matcher = build_matcher(p), held by every invocation
Share(p) ==
    /\ pat' = p
    /\ built' = IF BuildFails(p) THEN "ValueError" ELSE "ok"
    /\ tmpl' = NoPattern
    /\ tbuilt' = "none"
    /\ heap' = <<>>
    /\ procs' = NoInvocations
    /\ UNCHANGED <<sliceHashable, order, first, mdata, mres, args, coord, tres>>

\* template = build_template(spec), held by every invocation
ShareTemplate(spec) ==
    /\ tmpl' = spec
    /\ tbuilt' = IF TemplateBuildFails(spec) THEN "ValueError" ELSE "ok"
    /\ pat' = NoPattern
    /\ built' = "none"
    /\ heap' = <<>>
    /\ procs' = NoInvocations
    /\ UNCHANGED <<sliceHashable, order, first, mdata, mres, args, coord, tres>>

\* the objects of an invocation that is over are dropped when it calls again
Dropped(t) == [g \in {q \in DOMAIN heap : q[1] # t} |-> heap[g]]

\* invocation t calls matcher(d)
Enter(t, d) ==
    /\ built = "ok"
    /\ procs[t].state # "running"
    /\ LET r == MatchSteps(pat, d, 1)
       IN  procs' = [procs EXCEPT ![t] =
                        [state |-> "running", input |-> d, ops |-> r.ops, pc |-> 1,
                         out |-> [kind |-> r.kind, b |-> r.b, key |-> r.key],
                         mixed |-> FALSE]]
    /\ heap' = Dropped(t)
    /\ UNCHANGED <<sliceHashable, order, first, pat, built, mdata, mres, tmpl, tbuilt, args,
                   coord, tres>>

\* invocation t calls template(bindings, nesting_level)
EnterTemplate(t, a) ==
    /\ tbuilt = "ok"
    /\ procs[t].state # "running"
    /\ LET r == TemplateSteps(tmpl, a.args, a.coord, 1)
       IN  procs' = [procs EXCEPT ![t] =
                        [state |-> "running", input |-> a, ops |-> r.ops, pc |-> 1,
                         out |-> [kind |-> r.kind, msg |-> r.msg, v |-> r.v],
                         mixed |-> FALSE]]
    /\ heap' = Dropped(t)
    /\ UNCHANGED <<sliceHashable, order, first, pat, built, mdata, mres, tmpl, tbuilt, args,
                   coord, tres>>

\* another invocation is between its first step and its return
Overlapped(t) ==
    \E u \in Invocations \ {t} : procs[u].state = "running" /\ procs[u].pc > 1

\* invocation t takes its next step; an exception of the step ends the call;
\* mixed records that the step was taken in the middle of another invocation
Execute(t) ==
    /\ procs[t].state = "running"
    /\ procs[t].pc <= Len(procs[t].ops)
    /\ LET o == procs[t].ops[procs[t].pc]
           e == Exec(o, t, heap)
           used == Touched(o, t, heap)
       IN  /\ heap' = [g \in DOMAIN e.h |->
                          IF g \in used THEN [e.h[g] EXCEPT !.by = @ \cup {t}] ELSE e.h[g]]
           /\ procs' = IF e.err = ""
                       THEN [procs EXCEPT ![t].pc = @ + 1,
                                          ![t].mixed = @ \/ Overlapped(t)]
                       ELSE [procs EXCEPT ![t].state = "done",
                                          ![t].mixed = @ \/ Overlapped(t),
                                          ![t].out = IF built = "ok" THEN Raise(e.err)
                                                     ELSE TRaise(e.err, "")]
    /\ UNCHANGED <<sliceHashable, order, first, pat, built, mdata, mres, tmpl, tbuilt, args,
                   coord, tres>>

\* invocation t returns (or raises) to its caller
Return(t) ==
    /\ procs[t].state = "running"
    /\ procs[t].pc > Len(procs[t].ops)
    /\ procs' = [procs EXCEPT ![t].state = "done"]
    /\ UNCHANGED <<sliceHashable, order, first, heap, pat, built, mdata, mres, tmpl, tbuilt,
                   args, coord, tres>>

ThreadNext ==
    \/ \E p \in ThreadPatterns : Share(p)
    \/ \E spec \in ThreadTemplates : ShareTemplate(spec)
    \/ \E t \in Invocations : \E d \in ThreadData : Enter(t, d)
    \/ \E t \in Invocations : \E a \in ThreadArguments : EnterTemplate(t, a)
    \/ \E t \in Invocations : Execute(t)
    \/ \E t \in Invocations : Return(t)

ThreadSpec == Init /\ [][ThreadNext]_vars

\* what the caller of invocation t holds once the call is over
Outcome(t) ==
    LET out == procs[t].out
    IN  IF out.kind # "ok" THEN out
        ELSE IF built = "ok"
             THEN Ok([k \in DOMAIN out.b |-> Resolve(Deref(out.b[k], t, heap), heap)])
        ELSE TOk(Resolve(Deref(out.v, t, heap), heap))

\* what the same call returns when no other invocation exists
Alone(t) ==
    IF built = "ok" THEN Match(pat, procs[t].input)
    ELSE Instantiate(tmpl, procs[t].input.args, procs[t].input.coord)

(***************************************************************************)
(* C22  Two invocations of the same compiled matcher (or of the same       *)
(* compiled instantiator), on the same or different inputs and interleaved *)
(* step by step in any order, each return exactly what they return when    *)
(* run alone: no invocation reads or writes an accumulator, binding        *)
(* mapping or Repeating created by the other.                              *)
(***************************************************************************)
C22_Interleaving ==
    /\ \A t \in Invocations : procs[t].state = "done" => Outcome(t) = Alone(t)
    /\ \A g \in DOMAIN heap : heap[g].by = {heap[g].owner}

\* both invocations are over, and each took steps in the middle of the other
C22_Witness ==
    /\ pat = Rep1(Rep1(bind("x")))
    /\ procs[1].state = "done" /\ procs[1].mixed
    /\ procs[2].state = "done" /\ procs[2].mixed
    /\ procs[1].input = L2(L2(I1, I2), L1(I3))
    /\ procs[2].input = L1(L1(I1))
    /\ Outcome(1) = Ok("x" :> Repeating(<<Repeating(<<I1, I2>>), Repeating(<<I3>>)>>))
    /\ Outcome(2) = Ok("x" :> Repeating(<<Repeating(<<I1>>)>>))

(***************************************************************************)
(* C23  In a list template with one repetition marker, the fixed items     *)
(* before the repeated element are instantiated once with the nesting      *)
(* coordinate the list template itself received, so a fixed item inside an *)
(* enclosing repetition resolves insert(name) at the enclosing iteration:  *)
(* [[insert y, insert z, ...], ...] with {y: Repeating([1, 2]),            *)
(* z: Repeating([Repeating([1]), Repeating([1, 2])])} yields               *)
(* [[1, 1], [2, 1, 2]].                                                    *)
(***************************************************************************)
ItemsAtCoordinate(t) == InstantiateItems(ItemsOf(t), 1, args, coord, <<>>)

C23_FixedItemsCoordinate ==
    /\ (TCalled /\ IsRepeatingTemplate(tmpl)) =>
          /\ ItemsAtCoordinate(tmpl).kind # "ok" => tres = ItemsAtCoordinate(tmpl)
          /\ tres.kind = "ok" =>
                /\ ItemsAtCoordinate(tmpl).kind = "ok"
                /\ SubSeq(tres.v.v, 1, Len(ItemsOf(tmpl))) = ItemsAtCoordinate(tmpl).v.v
    /\ (TCalled /\ tmpl = TRep1(TRep2(Insert("y"), Insert("z"))) /\ coord = <<>>
               /\ args = ("y" :> Ramp(2) @@ "z" :> Nest(2))) =>
          tres = TOk(PyList(<<PyList(<<PyInt(1), PyInt(1)>>),
                              PyList(<<PyInt(2), PyInt(1), PyInt(2)>>)>>))

(***************************************************************************)
(* C24  A Skip raised anywhere inside the match of one repeated element    *)
(* (below mapping patterns, fixed-list patterns, bind_as with or without   *)
(* default, and other skip wrappers) reaches the nearest enclosing         *)
(* repeating-list matcher unchanged and makes it drop exactly its own      *)
(* current element; elements of an outer repeating list are dropped only   *)
(* when the Skip arises outside every inner repeating list's repeated      *)
(* part.  In the contrived example a skip_mismatch on the 'recordings'      *)
(* value (here y) drops the whole measurement: the timestamps kept are     *)
(* Repeating([1, 3]).                                                      *)
(***************************************************************************)
\* the outcome that ends the loop over the sub-patterns: the first that is not "ok"
RECURSIVE FirstFailure(_, _, _)
FirstFailure(ps, ds, i) ==
    IF i > Len(ps) THEN Ok(<<>>)
    ELSE IF Match(ps[i], ds[i]).kind # "ok" THEN Match(ps[i], ds[i])
    ELSE FirstFailure(ps, ds, i + 1)

\* the values a mapping pattern hands to its sub-patterns, up to a missing key
RECURSIVE ValuesFor(_, _, _)
ValuesFor(p, d, i) ==
    IF i > Len(p.keys) \/ ~Available(p, d, i) THEN <<>>
    ELSE <<ValueFor(p, d, i)>> \o ValuesFor(p, d, i + 1)

\* the sub-patterns of a pattern that is not a repeating list, and the data
\* they are called with
SubPatterns(p, d) ==
    CASE p.k \in {"bind_as", "skip_mismatch", "skip_missing_keys"} -> <<p.p>>
      [] p.k = "list" /\ d.t = "list" /\ Len(d.v) = Len(p.items) -> p.items
      [] p.k = "dict" /\ d.t = "dict" -> SubSeq(p.pats, 1, Len(ValuesFor(p, d, 1)))
      [] OTHER -> <<>>
SubData(p, d) ==
    CASE p.k \in {"bind_as", "skip_mismatch", "skip_missing_keys"} -> <<d>>
      [] p.k = "list" /\ d.t = "list" /\ Len(d.v) = Len(p.items) -> d.v
      [] p.k = "dict" /\ d.t = "dict" -> ValuesFor(p, d, 1)
      [] OTHER -> <<>>

PrefixData(p, d) == PyList(Slice(d.v, 0, Len(PrefixOf(p))))

\* the rule for one call: a Skip of a sub-call leaves the call as Skip, and a
\* repeating list lets a Skip out only from its prefix and drops the elements
\* whose match ended with Skip, and only those
SkipRule(p, d) ==
    IF IsRepeatingPattern(p)
    THEN d.t = "list" =>
            /\ Match(p, d).kind = "Skip"
                   <=> FixdListMatcher(PrefixOf(p), PrefixData(p, d)).kind = "Skip"
            /\ Match(p, d) = Match(p, WithoutSkipped(p, d))
    ELSE /\ FirstFailure(SubPatterns(p, d), SubData(p, d), 1).kind = "Skip"
                => Match(p, d).kind = "Skip"
         /\ (Match(p, d).kind = "Skip" /\ p.k \notin {"skip_mismatch", "skip_missing_keys"})
                => FirstFailure(SubPatterns(p, d), SubData(p, d), 1).kind = "Skip"

\* the rule for a call and for the calls made below it
RECURSIVE SkipRuleBelow(_, _)
SkipRuleBelow(p, d) ==
    /\ SkipRule(p, d)
    /\ IF IsRepeatingPattern(p)
       THEN d.t = "list" =>
               /\ Len(PrefixData(p, d).v) = Len(PrefixOf(p)) =>
                     \A i \in 1..Len(PrefixOf(p)) :
                         SkipRuleBelow(PrefixOf(p)[i], PrefixData(p, d).v[i])
               /\ \A i \in 1..Len(RestOf(p, d)) : SkipRuleBelow(RepeatedOf(p), RestOf(p, d)[i])
       ELSE \A i \in 1..Len(SubPatterns(p, d)) :
               SkipRuleBelow(SubPatterns(p, d)[i], SubData(p, d)[i])

Measurements ==
    Rep1(SkipMissingKeys({"y"},
             DictXY(bind("x"),
                    SkipOnMismatch(PList(<<PDict(<<>>, <<>>), Rep1(bind("z"))>>)))))

C24_SkipReachesNearestList ==
    /\ Called => SkipRuleBelow(pat, mdata)
    /\ (Called /\ pat = Measurements
               /\ mdata = L4(DXY(I1, L2(EmptyDict, L2(I1, I2))), DXY(I2, L1(EmptyDict)),
                             DXY(I3, L2(EmptyDict, L2(I1, I3))), DX(PyInt(4)))) =>
          mres = Ok("x" :> Repeating(<<I1, I3>>)
                    @@ "z" :> Repeating(<<Repeating(<<I1, I2>>), Repeating(<<I1, I3>>)>>))

\* a Skip of the inner prefix drops an outer element, a Skip of the inner
\* repeated part drops an inner element
C24_Witness ==
    \/ /\ pat = Rep1(Rep2(SkipOnMismatch(Lit(I1)), bind("x")))
       /\ mdata = L3(L2(I1, I2), L2(I2, I2), L2(I1, I3))
       /\ mres = Ok("x" :> Repeating(<<Repeating(<<I2>>), Repeating(<<I3>>)>>))
    \/ /\ pat = Rep1(Rep1(SkipOnMismatch(PList(<<Lit(I1), bind("x")>>))))
       /\ mdata = L3(L2(L2(I1, I2), L2(I2, I2)), L1(L2(I1, I3)), L1(L2(I2, I2)))
       /\ mres = Ok("x" :> Repeating(<<Repeating(<<I2>>), Repeating(<<I3>>),
                                       Repeating(<<>>)>>))


(***************************************************************************)
(* C25  A repeating-list matcher drops an element only on a Skip raised by *)
(* the repeated sub-matcher for that element: every Mismatch that reaches  *)
(* it, from a fixed-prefix element or from a repeated element without a    *)
(* skip wrapper, aborts the whole match with no bindings returned          *)
(* ([{x: bind('x')}, ...] against [{x:1}, {}, {x:2}] raises KeyMismatch),  *)
(* and a failure while matching the fixed prefix is never skippable, even  *)
(* when the prefix sub-pattern is wrapped in skip_mismatch.                *)
(***************************************************************************)
\* the number of sub-matchers a loop calls: it ends with the first failure
RECURSIVE CallsMade(_, _, _)
CallsMade(ps, ds, i) ==
    IF i > Len(ps) THEN Len(ps)
    ELSE IF Match(ps[i], ds[i]).kind # "ok" THEN i
    ELSE CallsMade(ps, ds, i + 1)

\* the number of elements the repeating loop tries: Skip lets it go on
RECURSIVE ElementsTried(_, _, _)
ElementsTried(rep, ds, i) ==
    IF i > Len(ds) THEN Len(ds)
    ELSE IF Match(rep, ds[i]).kind \notin {"ok", "Skip"} THEN i
    ELSE ElementsTried(rep, ds, i + 1)

\* the prefix of a repeating list has been matched and the loop is entered
LoopEntered(p, d) ==
    /\ d.t = "list"
    /\ FixdListMatcher(PrefixOf(p), PrefixData(p, d)).kind = "ok"
    /\ PreSeed(FixdListMatcher(PrefixOf(p), PrefixData(p, d)).b,
               DOMAIN find_bindings(RepeatedOf(p), 0)).kind = "ok"

\* a failure reaches the repeating-list matcher from its prefix, or a
\* Mismatch reaches it from a repeated element
PrefixFails(p, d) ==
    d.t = "list" /\ FixdListMatcher(PrefixOf(p), PrefixData(p, d)).kind # "ok"
ElementFails(p, d) ==
    /\ LoopEntered(p, d)
    /\ \E i \in 1..Len(RestOf(p, d)) : IsMismatch(Match(RepeatedOf(p), RestOf(p, d)[i]))

\* the claim as stated: such a failure leaves the whole match without bindings
WholeMatchAborted(p, d) == (PrefixFails(p, d) \/ ElementFails(p, d)) => mres.kind # "ok"

\* the failure ends the call of that matcher, which passes it on unchanged
\* and drops no element for it
CallAborted(p, d) ==
    /\ PrefixFails(p, d) => Match(p, d) = FixdListMatcher(PrefixOf(p), PrefixData(p, d))
    /\ ElementFails(p, d) =>
          Match(p, d) = Match(RepeatedOf(p),
                              RestOf(p, d)[ElementsTried(RepeatedOf(p), RestOf(p, d), 1)])
    /\ (d.t = "list" /\ Match(p, d).kind = "ok") =>
          /\ Len(PrefixData(p, d).v) = Len(PrefixOf(p))
          /\ \A i \in 1..Len(RestOf(p, d)) :
                 Match(RepeatedOf(p), RestOf(p, d)[i]).kind \in {"ok", "Skip"}

\* the names pre-seeded are not bound by the prefix, and they include every
\* name the repeated sub-matcher returns for an element
SeedConsistent(p, d) ==
    (d.t = "list" /\ ~PrefixFails(p, d)) =>
        /\ DOMAIN FixdListMatcher(PrefixOf(p), PrefixData(p, d)).b
               \cap DOMAIN find_bindings(RepeatedOf(p), 0) = {}
        /\ \A i \in 1..Len(RestOf(p, d)) :
               DOMAIN Match(RepeatedOf(p), RestOf(p, d)[i]).b
                   \subseteq DOMAIN find_bindings(RepeatedOf(p), 0)

\* the rule holds of every call of a repeating-list matcher that the match
\* of d against p makes
RECURSIVE EveryListCall(_, _, _)
EveryListCall(p, d, rule) ==
    IF IsRepeatingPattern(p)
    THEN /\ CASE rule = "whole" -> WholeMatchAborted(p, d)
              [] rule = "call" -> CallAborted(p, d)
              [] rule = "seed" -> SeedConsistent(p, d)
         /\ d.t = "list" =>
               /\ Len(PrefixData(p, d).v) = Len(PrefixOf(p)) =>
                     \A i \in 1..CallsMade(PrefixOf(p), PrefixData(p, d).v, 1) :
                         EveryListCall(PrefixOf(p)[i], PrefixData(p, d).v[i], rule)
               /\ LoopEntered(p, d) =>
                     \A i \in 1..ElementsTried(RepeatedOf(p), RestOf(p, d), 1) :
                         EveryListCall(RepeatedOf(p), RestOf(p, d)[i], rule)
    ELSE \A i \in 1..CallsMade(SubPatterns(p, d), SubData(p, d), 1) :
             EveryListCall(SubPatterns(p, d)[i], SubData(p, d)[i], rule)

C25_MismatchAbortsWholeMatch ==
    /\ Called => EveryListCall(pat, mdata, "whole")
    /\ (Called /\ pat = Rep1(PDict(<<Key("x")>>, <<bind("x")>>))
               /\ mdata = L3(DX(I1), EmptyDict, DX(I2))) => mres = KeyMismatch("x")

\* a bind_as with a default, or a skip wrapper, occurs in the pattern
RECURSIVE Absorbs(_)
Absorbs(p) ==
    CASE p.k = "bind_as" -> p.hasDefault \/ Absorbs(p.p)
      [] p.k \in {"skip_mismatch", "skip_missing_keys"} -> TRUE
      [] p.k = "list" -> \E i \in 1..Len(p.items) : Absorbs(p.items[i])
      [] p.k = "dict" -> \E i \in 1..Len(p.pats) : Absorbs(p.pats[i])
      [] OTHER -> FALSE

\* C25 as amended: the failure ends the call of the repeating-list matcher
\* it reaches, with no bindings and no element dropped for it; the whole
\* match ends with it when the pattern has neither a bind_as default nor a
\* skip wrapper
C25_MismatchAbortsCall ==
    /\ Called => EveryListCall(pat, mdata, "call")
    /\ (Called /\ ~Absorbs(pat)) => EveryListCall(pat, mdata, "whole")
    /\ (Called /\ pat = Rep1(PDict(<<Key("x")>>, <<bind("x")>>))
               /\ mdata = L3(DX(I1), EmptyDict, DX(I2))) => mres = KeyMismatch("x")

C25_Witness ==
    /\ pat = Rep1(PDict(<<Key("x")>>, <<bind("x")>>))
    /\ mdata = L3(DX(I1), EmptyDict, DX(I2))
    /\ mres = KeyMismatch("x")


(***************************************************************************)
(* C26  When one capture name is used in two independent branches of a     *)
(* pattern (two sibling keys of a mapping pattern, two elements of a       *)
(* fixed-list pattern, or a prefix element and the repeated element of a   *)
(* repeating-list pattern), the match does not fail because of the reuse,  *)
(* and the binding written by the later branch in pattern order replaces   *)
(* the earlier one.                                                        *)
(***************************************************************************)
\* the branches of the pattern and the names each one writes
Branches(p) ==
    IF IsRepeatingPattern(p) THEN PrefixOf(p) \o <<RepeatedOf(p)>>
    ELSE IF p.k = "list" THEN p.items
    ELSE IF p.k = "dict" THEN p.pats
    ELSE <<>>
ReusedNames(p) ==
    {n \in Names : \E i, j \in 1..Len(Branches(p)) :
        i < j /\ n \in CaptureNames(Branches(p)[i]) \cap CaptureNames(Branches(p)[j])}

\* every branch of the pattern matches its part of the data
BranchesMatch(p, d) ==
    IF IsRepeatingPattern(p)
    THEN /\ d.t = "list"
         /\ FixdListMatcher(PrefixOf(p), PrefixData(p, d)).kind = "ok"
         /\ \A i \in 1..Len(RestOf(p, d)) :
                Match(RepeatedOf(p), RestOf(p, d)[i]).kind \in {"ok", "Skip"}
    ELSE /\ Len(SubData(p, d)) = Len(Branches(p))
         /\ FirstFailure(SubPatterns(p, d), SubData(p, d), 1).kind = "ok"

\* the last branch in pattern order that writes the name
LastWriter(p, d, n) ==
    CHOOSE i \in 1..Len(Branches(p)) :
        /\ n \in DOMAIN Match(Branches(p)[i], SubData(p, d)[i]).b
        /\ \A j \in (i + 1)..Len(Branches(p)) :
               n \notin DOMAIN Match(Branches(p)[j], SubData(p, d)[j]).b

C26_LaterBranchWins ==
    (Called /\ ReusedNames(pat) # {} /\ BranchesMatch(pat, mdata)) =>
        /\ mres.kind = "ok"
        /\ \A n \in ReusedNames(pat) :
               IF IsRepeatingPattern(pat)
               THEN /\ n \in DOMAIN mres.b
                    /\ mres.b[n].t = "rep"
                    /\ Len(mres.b[n].v) = Len(Kept(pat, mdata))
               ELSE /\ n \in DOMAIN mres.b
                    /\ mres.b[n] = Match(Branches(pat)[LastWriter(pat, mdata, n)],
                                         SubData(pat, mdata)[LastWriter(pat, mdata, n)]).b[n]


(***************************************************************************)
(* C27  Lock-step accumulators: after a successful repeating-list match,   *)
(* every name that the repeated sub-pattern can bind holds a Repeating     *)
(* whose length equals the number of remaining elements that were not      *)
(* skipped, and whose i-th value was bound by the i-th non-skipped element *)
(* in data order; this holds also when the sub-pattern contains bind_as    *)
(* with a default or skip wrappers.                                        *)
(***************************************************************************)
LockStep(p, d, b) ==
    \A n \in CaptureNames(RepeatedOf(p)) :
        /\ n \in DOMAIN b
        /\ b[n].t = "rep"
        /\ Len(b[n].v) = Len(Kept(p, d))
        /\ \A i \in 1..Len(Kept(p, d)) :
               /\ n \in DOMAIN Match(RepeatedOf(p), Kept(p, d)[i]).b
               /\ i <= Len(b[n].v) => b[n].v[i] = Match(RepeatedOf(p), Kept(p, d)[i]).b[n]

C27_LockStepAccumulators ==
    (Matched /\ IsRepeatingPattern(pat)) => LockStep(pat, mdata, mres.b)


(***************************************************************************)
(* C28  Pre-seeding consistency: for every pattern whose capture names are *)
(* unique, in every repeating-list match the set of names pre-seeded from  *)
(* static analysis is disjoint from the names bound by the fixed prefix    *)
(* (the assertion `name not in bindings` never fails) and contains every   *)
(* name that the repeated sub-matcher returns for any element (the         *)
(* accumulator lookup `bindings[k]` never fails), so a match ends only     *)
(* with bindings, a Mismatch or a Skip.                                    *)
(***************************************************************************)
\* the capture names of a pattern, one entry for each place that writes one
RECURSIVE CaptureSites(_)
RECURSIVE CaptureSitesOf(_, _)
CaptureSitesOf(ps, i) ==
    IF i > Len(ps) THEN <<>> ELSE CaptureSites(ps[i]) \o CaptureSitesOf(ps, i + 1)
CaptureSites(p) ==
    CASE p.k = "bind" -> <<p.name>>
      [] p.k = "bind_as" -> <<p.name>> \o CaptureSites(p.p)
      [] p.k \in {"skip_mismatch", "skip_missing_keys"} -> CaptureSites(p.p)
      [] p.k = "list" -> CaptureSitesOf(p.items, 1)
      [] p.k = "dict" -> CaptureSitesOf(p.pats, 1)
      [] OTHER -> <<>>
EachNameOnce(p) ==
    \A i, j \in 1..Len(CaptureSites(p)) : CaptureSites(p)[i] = CaptureSites(p)[j] => i = j

C28_PreSeedingConsistency ==
    (Called /\ EachNameOnce(pat)) =>
        /\ EveryListCall(pat, mdata, "seed")
        /\ mres.kind \in {"ok", "Skip"} \cup MismatchKinds


(***************************************************************************)
(* C29  Coordinates stay in range: for every template and every bindings   *)
(* value, ragged or irregular Repeating nestings included, an instantiator *)
(* called at the template root (empty coordinate) indexes a Repeating only *)
(* with an index smaller than its length, since each index was generated   *)
(* from a repetition count that the same Repeating was checked against;    *)
(* the instantiation ends only with data or with one of the documented     *)
(* errors (unresolved name, still repeating, inconsistent or absent        *)
(* repetition length), never with an out-of-range index.                   *)
(***************************************************************************)
DocumentedErrors ==
    {StillRepeating, RepeatLengthMismatch, NoRepeatedBindings}
        \cup {TRaise("KeyError", n) : n \in Names}

C29_CoordinatesInRange ==
    (TCalled /\ coord = <<>>) =>
        /\ tres.kind # "IndexError"
        /\ tres.kind = "ok" \/ tres \in DocumentedErrors

C29_Witness ==
    /\ tmpl = TRep1(TRep1(XYZ))
    /\ coord = <<>>
    /\ "z" \in DOMAIN args /\ args["z"] = Nest(2)
    /\ "y" \in DOMAIN args /\ args["y"] = Ramp(MaxRep)
    /\ tres.kind = "ok"

====
